---- MODULE Spec2Model ----
(***************************************************************************)
(* code-buddy: the streaming response accumulator (accumulator.Complete),  *)
(* the embedded directive parser (interactive.parseCommand), the turn loop *)
(* of interactive.Runner.Run and the tools a confirmed call runs.          *)
(*                                                                         *)
(* Strings are sequences of atoms: the empty string is << >> and string    *)
(* concatenation is \o.  An atom stands for a run of characters that no    *)
(* operation of the program ever cuts in two.                              *)
(***************************************************************************)
EXTENDS Integers, Sequences, FiniteSets, TLC

\* ------------------------------------------------------------------ bounds
\* Number of events one EventStream delivers at most.
MaxEvents == 4

\* Number of segments (parameters, stray lines) between the function directive
\* and the end of a generated directive text.
MaxSegments == 2

\* Number of turns the conversation history holds at most.
MaxTurns == 4

\* Number of user inputs one session reads at most.
MaxInputs == 3

\* Length of the file content a tool is run on at most.
MaxContent == 3

\* Number of lines of the file listing at most.
MaxLines == 2

None == "none"

\* A nil pointer, and a pointer to x.
Nil == << >>
Ptr(x) == << x >>

\* ------------------------------------------------- accumulator: event types
Ping == [type |-> "ping"]

MessageStop == [type |-> "message_stop"]

\* A value whose dynamic type matches no case of the type switch.
UnknownEvent == [type |-> "unknown"]

MessageStartEvents ==
    { [type |-> "message_start", stopReason |-> << >>, stopSequence |-> << >>,
       inputTokens |-> 1, outputTokens |-> 1] }

ContentBlockStartEvents ==
    { [type |-> "content_block_start", index |-> 0, cbType |-> "text",
       text |-> <<"a">>, name |-> << >>, id |-> << >>],
      [type |-> "content_block_start", index |-> 1, cbType |-> "tool_use",
       text |-> << >>, name |-> <<"t">>, id |-> <<"i">>] }

ContentBlockDeltaEvents ==
    { [type |-> "content_block_delta", index |-> 0, text |-> <<"x">>, partialJson |-> << >>],
      [type |-> "content_block_delta", index |-> 1, text |-> << >>, partialJson |-> <<"j">>],
      [type |-> "content_block_delta", index |-> 0, text |-> <<"y">>, partialJson |-> <<"k">>] }

ContentBlockStopEvents == { [type |-> "content_block_stop"] }

MessageDeltaEvents ==
    { [type |-> "message_delta", stopReason |-> <<"e">>, stopSequence |-> <<"s">>,
       outputTokens |-> 2],
      [type |-> "message_delta", stopReason |-> <<"m">>, stopSequence |-> << >>,
       outputTokens |-> 3] }

\* *claude.ClaudeError, *claude.ClientError and any other error value.
ErrorEvents ==
    { [type |-> "error", err |-> "ClaudeError"],
      [type |-> "error", err |-> "ClientError"] }

Events ==
    {Ping, MessageStop, UnknownEvent} \cup MessageStartEvents
        \cup ContentBlockStartEvents \cup ContentBlockDeltaEvents
        \cup ContentBlockStopEvents \cup MessageDeltaEvents \cup ErrorEvents

\* The zero value of claude.MessageStart (var startMsg claude.MessageStart).
ZeroMessageStart ==
    [stopReason |-> << >>, stopSequence |-> << >>, inputTokens |-> 0, outputTokens |-> 0]

VARIABLES
    accPc,            \* position of Complete: "init", "loop", "send", "returned"
    openFailed,       \* client.Message returned an error
    chanConfigured,   \* opts.contentBlockDeltaChan != nil
    delivered,        \* the events the range loop has received so far
    undrained,        \* events are left in the stream when Complete returns
    contentBlocks,    \* the finalized blocks
    contentType, contentBuilder, toolName, toolID, contentIdx,   \* the scratch
    startMsg,         \* the preliminary metadata
    sending,          \* Ptr(the fragment Complete is blocked sending), or Nil
    closeCount,       \* how many times the side channel has been closed
    retResult,        \* the *claude.MessageStart Complete returned, or Nil
    retErr,           \* the error Complete returned, or None
    outcomes,         \* number of times Complete has returned
    workerPc,         \* the display goroutine: "range", "exited"
    received,         \* the fragments the display goroutine has taken from the channel
    printed,          \* what the display goroutine has written to the terminal
    lastText,         \* lastText of the display goroutine
    waitOnText,       \* "open" or "closed"
    mainPc            \* the caller around Complete: "call", "wait", "proceed", "failed"

VARIABLES
    input,            \* the shape of the text handed to the parser
    parsePc,          \* "ready", "parsed" (cmdParser.Parse ran), "done" (parseCommand ran),
                      \* "again" (parseCommand ran on the text it had returned)
    parserOut,        \* what cmdParser.Parse returned
    cmdOut,           \* what parseCommand returned
    againOut          \* what parseCommand returned for the text of cmdOut

parseVars == << input, parsePc, parserOut, cmdOut, againOut >>

VARIABLES
    runPc,            \* Run: "top", "prompt", "request", "confirm", "exec", "done"
    turns,            \* the conversation history
    multiline,        \* the multiline flag
    model,            \* r.Model
    override,         \* r.OverrideSystemPrompt: Nil or Ptr(prompt)
    cmd,              \* the Cmd derived from the last TurnResult: Nil or Ptr(cmd)
    runErr,           \* the error Run returned, or None
    inputsRead,       \* number of user inputs read so far
    lastInput,        \* Ptr(userPrompt) of the current iteration of the outer loop, or Nil
    reqCount,         \* number of requests issued so far
    reqMessages,      \* the Messages of the request in flight
    shown,            \* Ptr(the Cmd printed by the confirmation prompt of this round), or Nil
    answer,           \* Ptr(the line read at that prompt), or Nil
    response,         \* the content blocks of the TurnResult received in this round
    ran,              \* Ptr(what cmd.Run returned: out, err) once the tool has run, or Nil
    sinceReset        \* the turns appended since the last /reset (since the start)

runVars ==
    << runPc, turns, multiline, model, override, cmd, runErr, inputsRead, lastInput,
       reqCount, reqMessages, shown, answer, response, ran, sinceReset >>

accVars ==
    << accPc, openFailed, chanConfigured, delivered, undrained, contentBlocks,
       contentType, contentBuilder, toolName, toolID, contentIdx, startMsg,
       sending, closeCount, retResult, retErr, outcomes, workerPc, received,
       printed, lastText, waitOnText, mainPc >>

VARIABLES
    toolPc,           \* a tool's Run: "idle", "call", "returned"
    toolIn,           \* the tool's fields and what it finds in its environment
    fileNow,          \* the content of the file named by Filename
    toolOut,          \* the string Run returned
    toolErr           \* the error Run returned, or None

toolVars == << toolPc, toolIn, fileNow, toolOut, toolErr >>

vars == << accVars, parseVars, runVars, toolVars >>

\* ------------------------------------------- the components when not in use
IdleInput == [lead |-> << >>, fn |-> << >>, segs |-> << >>, end |-> << >>, trail |-> << >>]
NoParserOut == [fc |-> Nil, err |-> None, pos |-> 0]
NoCmdOut == [fc |-> Nil, text |-> << >>, err |-> None]

AccIdle ==
    /\ accPc = "idle"
    /\ openFailed = FALSE
    /\ chanConfigured = FALSE
    /\ delivered = << >>
    /\ undrained = FALSE
    /\ contentBlocks = << >>
    /\ contentType = ""
    /\ contentBuilder = << >>
    /\ toolName = << >>
    /\ toolID = << >>
    /\ contentIdx = -1
    /\ startMsg = ZeroMessageStart
    /\ sending = Nil
    /\ closeCount = 0
    /\ retResult = Nil
    /\ retErr = None
    /\ outcomes = 0
    /\ workerPc = "absent"
    /\ received = << >>
    /\ printed = << >>
    /\ lastText = << >>
    /\ waitOnText = "open"
    /\ mainPc = "idle"

ParseIdle ==
    /\ input = IdleInput
    /\ parsePc = "idle"
    /\ parserOut = NoParserOut
    /\ cmdOut = NoCmdOut
    /\ againOut = NoCmdOut

RunIdle ==
    /\ runPc = "idle"
    /\ turns = << >>
    /\ multiline = FALSE
    /\ model = << >>
    /\ override = Nil
    /\ cmd = Nil
    /\ runErr = None
    /\ inputsRead = 0
    /\ lastInput = Nil
    /\ reqCount = 0
    /\ reqMessages = << >>
    /\ shown = Nil
    /\ answer = Nil
    /\ response = << >>
    /\ ran = Nil
    /\ sinceReset = << >>

\* No tool is run on its own.
ToolIdle ==
    /\ toolPc = "idle"
    /\ toolIn = << >>
    /\ fileNow = << >>
    /\ toolOut = << >>
    /\ toolErr = None

nonAccVars == << parseVars, runVars, toolVars >>
nonParseVars == << accVars, runVars, toolVars >>
nonRunVars == << accVars, parseVars, toolVars >>
nonToolVars == << accVars, parseVars, runVars >>

\* ----------------------------------------------------- accumulator: handlers

\* case *claude.ContentBlockStart: contentBuilder.Write([]byte(ev.ContentBlock.Text))
BuilderAfterStart(builder, ev) == builder \o ev.text

\* case *claude.ContentBlockDelta: the two Write calls on contentBuilder
BuilderAfterDelta(builder, ev) == (builder \o ev.text) \o ev.partialJson

DeltaFragmentJsonFirst(ev) == IF ev.partialJson # << >> THEN ev.partialJson ELSE ev.text

\* The ContentBlock published on the side channel for one delta.
DeltaFragment(ev) == IF ev.text # << >> THEN ev.text ELSE ev.partialJson

\* case *claude.ContentBlockStop: the block built from the scratch
FinalizedBlock ==
    [Text |-> contentBuilder, Typ |-> contentType, Idx |-> contentIdx,
     ToolName |-> toolName, ToolID |-> toolID]

StartMsgAfterDeltaKeepsFirst(msg, ev) ==
    IF msg.stopReason # << >> THEN msg
    ELSE [msg EXCEPT !.stopReason = ev.stopReason, !.stopSequence = ev.stopSequence,
                     !.outputTokens = ev.outputTokens]

\* case *claude.MessageDelta
StartMsgAfterDelta(msg, ev) ==
    [msg EXCEPT !.stopReason = ev.stopReason, !.stopSequence = ev.stopSequence,
                !.outputTokens = ev.outputTokens]

\* case *claude.MessageStart: startMsg = *ev
StartMsgAfterStart(ev) ==
    [stopReason |-> ev.stopReason, stopSequence |-> ev.stopSequence,
     inputTokens |-> ev.inputTokens, outputTokens |-> ev.outputTokens]

IsFatal(ev) == ev.type \in {"error", "unknown"}

FatalErrorAlwaysUnexpected(ev) == "unexpected message type"

FatalErrorIgnoreUnknown(ev) == IF ev.type = "error" THEN ev.err ELSE None

\* The error a fatal event makes Complete return.
FatalError(ev) == IF ev.type = "error" THEN ev.err ELSE "unexpected message type"

DeferredCloseNever == closeCount

\* defer close(opts.contentBlockDeltaChan), registered only when the channel is set
DeferredClose == IF chanConfigured THEN closeCount + 1 ELSE closeCount

\* --------------------------------------------------- accumulator: the state
InitAcc ==
    /\ accPc = "init"
    /\ openFailed = FALSE
    /\ chanConfigured \in BOOLEAN
    /\ delivered = << >>
    /\ undrained = FALSE
    /\ contentBlocks = << >>
    /\ contentType = ""
    /\ contentBuilder = << >>
    /\ toolName = << >>
    /\ toolID = << >>
    /\ contentIdx = -1
    /\ startMsg = ZeroMessageStart
    /\ sending = Nil
    /\ closeCount = 0
    /\ retResult = Nil
    /\ retErr = None
    /\ outcomes = 0
    /\ workerPc = IF chanConfigured THEN "range" ELSE "absent"
    /\ received = << >>
    /\ printed = << >>
    /\ lastText = << >>
    /\ waitOnText = "open"
    /\ mainPc = "call"
    /\ ParseIdle
    /\ RunIdle
    /\ ToolIdle

scratchVars == << contentType, contentBuilder, toolName, toolID, contentIdx >>
returnVars == << retResult, retErr, outcomes, closeCount, undrained >>
workerVars == << workerPc, received, printed, lastText, waitOnText >>

\* mr, err := a.client.Message(ctx, req); if err != nil { return nil, err }
AccOpenFail ==
    /\ accPc = "init"
    /\ accPc' = "returned"
    /\ openFailed' = TRUE
    /\ retErr' = "open error"
    /\ outcomes' = outcomes + 1
    /\ UNCHANGED nonAccVars
    /\ UNCHANGED << chanConfigured, delivered, undrained, contentBlocks, scratchVars,
                    startMsg, sending, closeCount, retResult, workerVars, mainPc >>

\* The stream was opened; the deferred close is registered.
AccOpen ==
    /\ accPc = "init"
    /\ accPc' = "loop"
    /\ UNCHANGED nonAccVars
    /\ UNCHANGED << openFailed, chanConfigured, delivered, contentBlocks, scratchVars,
                    startMsg, sending, returnVars, workerVars, mainPc >>

\* The range loop receives the next event of the stream.
Receives(ev) ==
    /\ accPc = "loop"
    /\ Len(delivered) < MaxEvents
    /\ delivered' = Append(delivered, ev)
    /\ UNCHANGED nonAccVars
    /\ UNCHANGED << openFailed, chanConfigured, workerVars, mainPc >>

\* case *claude.MessagePing: and case *claude.MessageStop:
AccIgnore ==
    \E ev \in {Ping, MessageStop} :
        /\ Receives(ev)
        /\ UNCHANGED << accPc, contentBlocks, scratchVars, startMsg, sending, returnVars >>

AccMessageStart ==
    \E ev \in MessageStartEvents :
        /\ Receives(ev)
        /\ startMsg' = StartMsgAfterStart(ev)
        /\ UNCHANGED << accPc, contentBlocks, scratchVars, sending, returnVars >>

AccContentBlockStart ==
    \E ev \in ContentBlockStartEvents :
        /\ Receives(ev)
        /\ contentType' = ev.cbType
        /\ contentIdx' = ev.index
        /\ toolName' = ev.name
        /\ toolID' = ev.id
        /\ contentBuilder' = BuilderAfterStart(contentBuilder, ev)
        /\ UNCHANGED << accPc, contentBlocks, startMsg, sending, returnVars >>

\* With a side channel, Complete blocks in the send until the fragment is taken.
AccContentBlockDelta ==
    \E ev \in ContentBlockDeltaEvents :
        /\ Receives(ev)
        /\ contentBuilder' = BuilderAfterDelta(contentBuilder, ev)
        /\ IF chanConfigured
             THEN accPc' = "send" /\ sending' = Ptr(DeltaFragment(ev))
             ELSE UNCHANGED << accPc, sending >>
        /\ UNCHANGED << contentBlocks, contentType, toolName, toolID, contentIdx,
                        startMsg, returnVars >>

AccContentBlockStop ==
    \E ev \in ContentBlockStopEvents :
        /\ Receives(ev)
        /\ contentBlocks' = Append(contentBlocks, FinalizedBlock)
        /\ contentType' = ""
        /\ contentIdx' = -1
        /\ contentBuilder' = << >>
        /\ toolName' = << >>
        /\ UNCHANGED << accPc, toolID, startMsg, sending, returnVars >>

AccMessageDelta ==
    \E ev \in MessageDeltaEvents :
        /\ Receives(ev)
        /\ startMsg' = StartMsgAfterDelta(startMsg, ev)
        /\ UNCHANGED << accPc, contentBlocks, scratchVars, sending, returnVars >>

\* case *claude.ClaudeError, *claude.ClientError, error, default: return nil, err.
\* Whether the stream holds further events at that point is up to the stream.
AccFatal ==
    \E ev \in ErrorEvents \cup {UnknownEvent}, more \in BOOLEAN :
        /\ Receives(ev)
        /\ IsFatal(ev)
        /\ accPc' = "returned"
        /\ retErr' = FatalError(ev)
        /\ outcomes' = outcomes + 1
        /\ closeCount' = DeferredClose
        /\ undrained' = more
        /\ UNCHANGED << contentBlocks, scratchVars, startMsg, sending, retResult >>

ResultOf(msg, blocks) == [meta |-> msg, Content |-> blocks]

\* The stream is closed: the range loop ends and the result is built.
AccStreamEnd ==
    /\ accPc = "loop"
    /\ accPc' = "returned"
    /\ retResult' = Ptr(ResultOf(startMsg, contentBlocks))
    /\ outcomes' = outcomes + 1
    /\ closeCount' = DeferredClose
    /\ UNCHANGED nonAccVars
    /\ UNCHANGED << openFailed, chanConfigured, delivered, undrained, contentBlocks,
                    scratchVars, startMsg, sending, retErr, workerVars, mainPc >>

\* for cb := range cbCh { fmt.Print(cb.Text); lastText = cb.Text }
DisplayRecv ==
    /\ workerPc = "range"
    /\ accPc = "send"
    /\ received' = Append(received, sending[1])
    /\ printed' = printed \o sending[1]
    /\ lastText' = sending[1]
    /\ sending' = Nil
    /\ accPc' = "loop"
    /\ UNCHANGED nonAccVars
    /\ UNCHANGED << openFailed, chanConfigured, delivered, contentBlocks, scratchVars,
                    startMsg, returnVars, workerPc, waitOnText, mainPc >>

HasNewlineSuffix(t) == Len(t) > 0 /\ t[Len(t)] = "\n"

\* The channel is closed: the range ends, the goroutine closes waitOnText.
DisplayExit ==
    /\ workerPc = "range"
    /\ closeCount > 0
    /\ workerPc' = "exited"
    /\ printed' = IF HasNewlineSuffix(lastText) THEN printed ELSE Append(printed, "\n")
    /\ waitOnText' = "closed"
    /\ UNCHANGED nonAccVars
    /\ UNCHANGED << accPc, openFailed, chanConfigured, delivered, contentBlocks,
                    scratchVars, startMsg, sending, returnVars, received, lastText,
                    mainPc >>

\* respMeta, err := acc.Complete(...); if err != nil { return err }
MainAfterComplete ==
    /\ mainPc = "call"
    /\ accPc = "returned"
    /\ mainPc' = IF retErr # None THEN "failed" ELSE "wait"
    /\ UNCHANGED nonAccVars
    /\ UNCHANGED << accPc, openFailed, chanConfigured, delivered, contentBlocks,
                    scratchVars, startMsg, sending, returnVars, workerVars >>

BlockedNever(ch) == FALSE

\* <-waitOnText blocks until the goroutine has closed the channel.
Blocked(ch) == ch # "closed"

\* <-waitOnText
MainProceed ==
    /\ mainPc = "wait"
    /\ chanConfigured => ~Blocked(waitOnText)
    /\ mainPc' = "proceed"
    /\ UNCHANGED nonAccVars
    /\ UNCHANGED << accPc, openFailed, chanConfigured, delivered, contentBlocks,
                    scratchVars, startMsg, sending, returnVars, workerVars >>

NextAcc ==
    \/ AccOpenFail
    \/ AccOpen
    \/ AccIgnore
    \/ AccMessageStart
    \/ AccContentBlockStart
    \/ AccContentBlockDelta
    \/ AccContentBlockStop
    \/ AccMessageDelta
    \/ AccFatal
    \/ AccStreamEnd
    \/ DisplayRecv
    \/ DisplayExit
    \/ MainAfterComplete
    \/ MainProceed

SpecAcc == InitAcc /\ [][NextAcc]_vars

\* One step of Complete: the next event of the stream, or the end of the stream.
CompleteStep ==
    \/ AccIgnore
    \/ AccMessageStart
    \/ AccContentBlockStart
    \/ AccContentBlockDelta
    \/ AccContentBlockStop
    \/ AccMessageDelta
    \/ AccFatal
    \/ AccStreamEnd

\* Complete is called with WithContentBlockDeltaChan, as Run always does.
InitAccLive == InitAcc /\ chanConfigured

\* The stream is finite and delivers its events, and the goroutines of
\* Complete and of the display are scheduled whenever they can run.
SpecAccLive ==
    /\ InitAccLive
    /\ [][NextAcc]_vars
    /\ WF_vars(CompleteStep)
    /\ WF_vars(DisplayRecv)
    /\ WF_vars(DisplayExit)

\* ------------------------------------------------ accumulator: the properties

PositionsOf(type) == { i \in 1..Len(delivered) : delivered[i].type = type }

\* The position in the stream of the event that finalized block k.
StopOfBlock(k) ==
    CHOOSE i \in PositionsOf("content_block_stop") :
        Cardinality({ j \in PositionsOf("content_block_stop") : j <= i }) = k

\* The position of the content-block-start event of the block finalized at
\* position s: the last start since the previous stop (0 when there is none).
StartOfBlock(s) ==
    LET prev == { j \in PositionsOf("content_block_stop") : j < s }
        low == IF prev = {} THEN 0 ELSE CHOOSE j \in prev : \A m \in prev : m <= j
        starts == { j \in PositionsOf("content_block_start") : low < j /\ j < s }
    IN IF starts = {} THEN 0 ELSE CHOOSE j \in starts : \A m \in starts : m <= j

RECURSIVE DeltaTextBetween(_, _)
\* The fragments of the delta events at positions from..to, in arrival order.
DeltaTextBetween(from, to) ==
    IF from > to THEN << >>
    ELSE LET ev == delivered[from]
             here == IF ev.type = "content_block_delta"
                       THEN ev.text \o ev.partialJson ELSE << >>
         IN here \o DeltaTextBetween(from + 1, to)

\* C2 (as claimed): the text of every finalized block is the inline text of
\* its content-block-start event followed by the fragments of its own delta
\* events in arrival order, for every event sequence.
ClaimC2 ==
    \A k \in 1..Len(contentBlocks) :
        LET s == StopOfBlock(k)
            b == StartOfBlock(s)
        IN b # 0 =>
             contentBlocks[k].Text = delivered[b].text \o DeltaTextBetween(b + 1, s - 1)

\* C3 (as claimed): with a side channel configured, the channel has been
\* closed exactly once when Complete has returned, on every exit path.
ClaimC3 == (accPc = "returned" /\ chanConfigured) => closeCount = 1

ExactlyOneOutcome ==
    /\ outcomes = 1
    /\ (retResult = Nil) # (retErr = None)

\* C4 (as claimed): a returned Complete has produced exactly one outcome and
\* has left no event in the stream, whether it returned a result or an error.
ClaimC4 == accPc = "returned" => (ExactlyOneOutcome /\ ~undrained)

\* C4 (amended): a returned Complete has produced exactly one outcome; when it
\* returned a result the stream was drained, and when it returned the error of
\* an event, that event is the last one it received, whatever the stream still
\* holds.
TheoremC4 ==
    /\ accPc # "returned" => outcomes = 0 /\ retResult = Nil /\ retErr = None
    /\ accPc = "returned" =>
         /\ ExactlyOneOutcome
         /\ retResult # Nil => ~undrained
         /\ (retErr # None /\ ~openFailed) =>
               /\ delivered # << >>
               /\ PositionsOf("error") \cup PositionsOf("unknown") = {Len(delivered)}

WitnessC4 ==
    /\ accPc = "returned"
    /\ retErr # None
    /\ undrained
    /\ Len(delivered) >= 2

WitnessC4Result ==
    /\ accPc = "returned"
    /\ retResult # Nil
    /\ Len(retResult[1].Content) >= 1

\* C5: an error-typed event is the last event Complete processes; Complete
\* returns that error and no result, whatever had been accumulated before.
TheoremC5 ==
    \A i \in PositionsOf("error") :
        /\ i = Len(delivered)
        /\ accPc = "returned"
        /\ retErr = delivered[i].err
        /\ retResult = Nil

WitnessC5 ==
    /\ PositionsOf("error") # {}
    /\ accPc = "returned"
    /\ Len(contentBlocks) >= 1
    /\ contentBuilder # << >>

\* C6: an event of an unrecognized type, at any position of the stream, makes
\* Complete return the 'unexpected message type' error and no result.
TheoremC6 ==
    \A i \in PositionsOf("unknown") :
        /\ i = Len(delivered)
        /\ accPc = "returned"
        /\ retErr = "unexpected message type"
        /\ retResult = Nil

WitnessC6 ==
    /\ PositionsOf("unknown") = {3}
    /\ accPc = "returned"
    /\ Len(contentBlocks) >= 1

RECURSIVE ExpectedFragments(_)
\* What the deltas among the first n received events should have published.
ExpectedFragments(n) ==
    IF n = 0 THEN << >>
    ELSE LET ev == delivered[n]
         IN IF ev.type = "content_block_delta"
              THEN Append(ExpectedFragments(n - 1),
                          IF ev.text # << >> THEN ev.text ELSE ev.partialJson)
              ELSE ExpectedFragments(n - 1)

\* C7: with a side channel, the fragments handed to the channel are those of
\* the delta events received, one per delta and in arrival order (the literal
\* text when non-empty, else the partial JSON), and no further event is
\* processed while a fragment is still being sent.
TheoremC7 ==
    chanConfigured =>
        /\ accPc = "send" <=> sending # Nil
        /\ ExpectedFragments(Len(delivered)) =
              received \o sending

WitnessC7 ==
    /\ chanConfigured
    /\ received = << <<"y">>, <<"j">> >>
    /\ accPc = "send"
    /\ sending = Ptr(<<"x">>)

\* C22: once the main flow of Run has passed <-waitOnText, the display
\* goroutine has exited and has received every fragment published on the
\* side channel, one per delta and in order; none is still being sent.
TheoremC22 ==
    (chanConfigured /\ mainPc = "proceed") =>
        /\ workerPc = "exited"
        /\ waitOnText = "closed"
        /\ sending = Nil
        /\ received = ExpectedFragments(Len(delivered))

\* The main flow has passed the wait after two fragments were displayed.
WitnessC22 ==
    /\ chanConfigured
    /\ mainPc = "proceed"
    /\ workerPc = "exited"
    /\ Len(received) = 2

\* The last event received is of the given type.
LastEventIs(types) == delivered # << >> /\ delivered[Len(delivered)].type \in types

\* The metadata the events received so far should leave: a message-start
\* sets all of it, a later message-delta the stop reason, the stop sequence
\* and the output-token count.
RECURSIVE ExpectedMeta(_)
ExpectedMeta(n) ==
    IF n = 0 THEN ZeroMessageStart
    ELSE LET ev == delivered[n]
         IN IF ev.type = "message_start"
              THEN [stopReason |-> ev.stopReason, stopSequence |-> ev.stopSequence,
                    inputTokens |-> ev.inputTokens, outputTokens |-> ev.outputTokens]
            ELSE IF ev.type = "message_delta"
              THEN [stopReason |-> ev.stopReason, stopSequence |-> ev.stopSequence,
                    inputTokens |-> ExpectedMeta(n - 1).inputTokens,
                    outputTokens |-> ev.outputTokens]
            ELSE ExpectedMeta(n - 1)

\* The step on which an event of one of the given types is received.
ReceivesOneOf(types) == Len(delivered') = Len(delivered) + 1 /\ LastEventIs(types)'

\* A message-delta leaves the blocks and the scratch alone, a ping and a
\* message-stop leave alone the metadata as well.
MetaOnlyStep ==
    /\ ReceivesOneOf({ "message_delta", "ping", "message_stop" }) =>
          UNCHANGED << contentBlocks, scratchVars, sending, returnVars, accPc >>
    /\ ReceivesOneOf({ "message_delta" }) => startMsg'.inputTokens = startMsg.inputTokens
    /\ ReceivesOneOf({ "ping", "message_stop" }) => startMsg' = startMsg

\* C29: a message-delta overwrites the stop reason, the stop sequence and the
\* output-token count only, the last one winning; it leaves the input-token
\* count, the finalized blocks and the scratch alone; ping and message-stop
\* change nothing of the accumulator.
TheoremC29 == [](startMsg = ExpectedMeta(Len(delivered))) /\ [][MetaOnlyStep]_vars

\* Two message-deltas after a message-start and an open block: the second
\* one's values are in the metadata, the input tokens are the start's.
WitnessC29 ==
    /\ Len(delivered) = 4
    /\ delivered[1].type = "message_start"
    /\ delivered[2].type = "content_block_start"
    /\ delivered[3].type = "message_delta"
    /\ delivered[4].type = "message_delta"
    /\ delivered[3] # delivered[4]
    /\ startMsg.stopReason = delivered[4].stopReason
    /\ startMsg.inputTokens = 1
    /\ contentBuilder # << >>

\* C30 (as claimed): after a content-block-start event the scratch holds the
\* declared type, index and tool name and id, and its text is exactly the
\* inline text of that event, whatever events came before.
ClaimC30 ==
    LastEventIs({ "content_block_start" }) =>
        LET ev == delivered[Len(delivered)]
        IN /\ contentType = ev.cbType
           /\ contentIdx = ev.index
           /\ toolName = ev.name
           /\ toolID = ev.id
           /\ contentBuilder = ev.text

\* C31 (as claimed): a content-block-stop event appends one block to the end
\* of the result list and then clears the whole scratch: type, index, text,
\* tool name and tool id.
ClaimC31 ==
    LastEventIs({ "content_block_stop" }) =>
        /\ Len(contentBlocks) = Cardinality(PositionsOf("content_block_stop"))
        /\ contentType = ""
        /\ contentIdx = -1
        /\ contentBuilder = << >>
        /\ toolName = << >>
        /\ toolID = << >>

\* The channel is closed only when Complete has returned, after the last
\* fragment was taken, and it is closed once at most.
ClosedAfterLastPublish ==
    closeCount > 0 => (closeCount = 1 /\ accPc = "returned" /\ sending = Nil)

\* Complete and the display goroutine have both finished, and the goroutine
\* has received all that was published.
BothFinished ==
    /\ accPc = "returned"
    /\ workerPc = "exited"
    /\ received = ExpectedFragments(Len(delivered))

\* C38: for a finite stream that was opened, Complete and the display
\* goroutine do not deadlock: every fragment published is received, the
\* channel is closed only after the last publish, Complete returns and the
\* goroutine then exits.
TheoremC38 ==
    /\ []ClosedAfterLastPublish
    /\ (chanConfigured /\ accPc = "loop") ~> BothFinished

\* Both have finished after an error event that followed two fragments.
WitnessC38 ==
    /\ chanConfigured
    /\ BothFinished
    /\ retErr # None
    /\ Len(received) = 2

\* ===================================================== the directive parser

\* commandPrefix = reverseString("function_call#")
commandPrefix == "#llac_noitcnuf"

Comma == ","
NL == "\n"

\* The least element of a non-empty set of positions.
First(hits) == CHOOSE h \in hits : \A m \in hits : h <= m

RECURSIVE SplitOn(_, _)
\* strings.Split(s, sep) for a one-atom separator
SplitOn(s, sep) ==
    LET At(i) == << SubSeq(s, 1, i - 1) >> \o SplitOn(SubSeq(s, i + 1, Len(s)), sep)
        Cut(hits) ==
            IF hits = {} THEN << s >> ELSE At(First(hits))
    IN Cut({ i \in 1..Len(s) : s[i] = sep })

RECURSIVE JoinWith(_, _)
\* strings.Join(elems, sep)
JoinWith(elems, sep) ==
    IF elems = << >> THEN << >>
    ELSE IF Len(elems) = 1 THEN elems[1]
    ELSE (elems[1] \o << sep >>) \o JoinWith(Tail(elems), sep)

WhiteSpace == {" ", "\t", "\r", "\n"}

RECURSIVE TrimLeft(_)
TrimLeft(s) == IF s # << >> /\ s[1] \in WhiteSpace THEN TrimLeft(Tail(s)) ELSE s

RECURSIVE TrimRight(_)
TrimRight(s) ==
    IF s # << >> /\ s[Len(s)] \in WhiteSpace THEN TrimRight(SubSeq(s, 1, Len(s) - 1)) ELSE s

\* strings.TrimSpace
TrimSpace(s) == TrimRight(TrimLeft(s))

\* bufio.ScanLines drops one trailing carriage return of a line
DropCR(line) ==
    IF line # << >> /\ line[Len(line)] = "\r" THEN SubSeq(line, 1, Len(line) - 1) ELSE line

\* The tokens bufio.Scanner yields for the text: the lines without their
\* terminator; a final empty line is no token.
ScanLines(text) ==
    LET Tokens(kept) == [ i \in 1..Len(kept) |-> DropCR(kept[i]) ]
        Lines(raw) ==
            Tokens(IF raw[Len(raw)] = << >> THEN SubSeq(raw, 1, Len(raw) - 1) ELSE raw)
    IN Lines(SplitOn(text, NL))

\* strings.HasPrefix(line, commandPrefix)
HasCommandPrefix(line) == line # << >> /\ line[1] = commandPrefix

\* strings.Index(text, commandPrefix + ",end_function"): 0 when absent, else
\* the position of the first atom of the first occurrence.
funcEndTxt == << commandPrefix, Comma, "end_function" >>

IndexOfFuncEndLast(text) ==
    LET Greatest(hits) ==
            IF hits = {} THEN 0 ELSE CHOOSE h \in hits : \A m \in hits : h >= m
    IN Greatest({ i \in 1..(Len(text) - 2) : SubSeq(text, i, i + 2) = funcEndTxt })

IndexOfFuncEnd(text) ==
    LET Least(hits) == IF hits = {} THEN 0 ELSE First(hits)
    IN Least({ i \in 1..(Len(text) - 2) : SubSeq(text, i, i + 2) = funcEndTxt })

MinParts == 2

consumeUntilPrefixTrimmed(lines, pos) ==
    LET AtLine(i, parts, before) ==
            IF Len(parts) < MinParts
              THEN [before |-> before, parts |-> Nil,
                    err |-> "invalid function call line", pos |-> i]
              ELSE [before |-> before, parts |-> parts, err |-> None, pos |-> i]
        Found(i) ==
            AtLine(i, SplitOn(lines[i], Comma),
                   TrimSpace(JoinWith(SubSeq(lines, pos + 1, i - 1), NL)))
        Scan(hits) ==
            IF hits = {}
              THEN [before |-> JoinWith(SubSeq(lines, pos + 1, Len(lines)), NL),
                    parts |-> Nil, err |-> "EOF", pos |-> Len(lines)]
              ELSE Found(First(hits))
    IN Scan({ i \in (pos + 1)..Len(lines) : HasCommandPrefix(lines[i]) })

\* cmdParser.consumeUntilPrefix on the scanner that has yielded pos lines: the
\* lines up to the next one that starts with the prefix, and that line's fields.
consumeUntilPrefix(lines, pos) ==
    LET AtLine(i, parts, before) ==
            IF Len(parts) < MinParts
              THEN [before |-> before, parts |-> Nil,
                    err |-> "invalid function call line", pos |-> i]
              ELSE [before |-> before, parts |-> parts, err |-> None, pos |-> i]
        Found(i) ==
            AtLine(i, SplitOn(lines[i], Comma), JoinWith(SubSeq(lines, pos + 1, i - 1), NL))
        Scan(hits) ==
            IF hits = {}
              THEN [before |-> JoinWith(SubSeq(lines, pos + 1, Len(lines)), NL),
                    parts |-> Nil, err |-> "EOF", pos |-> Len(lines)]
              ELSE Found(First(hits))
    IN Scan({ i \in (pos + 1)..Len(lines) : HasCommandPrefix(lines[i]) })

\* if len(cmdParts) != 3
FuncShapeOk(parts) == Len(parts) = 3

\* cmdParser.consumeFuncCall (c.err is nil when Parse calls it)
consumeFuncCall(lines) ==
    LET Check(r) ==
            IF r.err # None THEN [name |-> << >>, err |-> r.err, pos |-> r.pos]
            ELSE IF TrimSpace(r.parts[2]) # << "function" >>
              THEN [name |-> << >>, err |-> "expected function", pos |-> r.pos]
            ELSE IF ~FuncShapeOk(r.parts)
              THEN [name |-> << >>, err |-> "function call wrong shape", pos |-> r.pos]
            ELSE [name |-> TrimSpace(r.parts[3]), err |-> None, pos |-> r.pos]
    IN Check(consumeUntilPrefix(lines, 0))

\* if len(cmdParts) != 3
ParamShapeOk(parts) == Len(parts) = 3

EndsParameterAlways(parts) == TRUE

\* if cmdParts[1] != "end_parameter"
EndsParameter(parts) == parts[2] = << "end_parameter" >>

AppendParamFront(params, p) == << p >> \o params

\* params = append(params, FunctionParameter{...})
AppendParam(params, p) == Append(params, p)

RECURSIVE consumeParams(_, _, _)
\* cmdParser.consumeParams: the loop, entered with pos lines read and params
\* collected; r is the directive read, b the one that ends a parameter's body.
\* The default case records its error in c.err and loops on.
consumeParams(lines, pos, params) ==
    LET Body(r, b) ==
            IF b.err # None THEN [params |-> << >>, err |-> b.err, pos |-> b.pos]
            ELSE IF ~EndsParameter(b.parts)
              THEN [params |-> << >>, err |-> "parameter not terminated", pos |-> b.pos]
            ELSE consumeParams(lines, b.pos,
                     AppendParam(params, [Name |-> r.parts[3], Value |-> b.before]))
        Directive(r) ==
            IF r.err # None THEN [params |-> << >>, err |-> r.err, pos |-> r.pos]
            ELSE IF r.before # << >>
              THEN [params |-> << >>, err |-> "unexpected text within command",
                    pos |-> r.pos]
            ELSE IF r.parts[2] = << "parameter" >>
              THEN IF ~ParamShapeOk(r.parts)
                     THEN [params |-> << >>, err |-> "parameter wrong shape", pos |-> r.pos]
                     ELSE Body(r, consumeUntilPrefix(lines, r.pos))
            ELSE IF r.parts[2] = << "end_function" >>
              THEN [params |-> params, err |-> None, pos |-> r.pos]
            ELSE consumeParams(lines, r.pos, params)
    IN Directive(consumeUntilPrefix(lines, pos))

\* cmdParser.Parse; fc is Nil or Ptr(FunctionCall), pos the lines read
Parse(lines) ==
    LET Params(f, q) ==
            IF q.err # None THEN [fc |-> Nil, err |-> q.err, pos |-> q.pos]
            ELSE [fc |-> Ptr([Name |-> f.name, Parameters |-> q.params]),
                  err |-> None, pos |-> q.pos]
        Call(f) ==
            IF f.err # None THEN [fc |-> Nil, err |-> f.err, pos |-> f.pos]
            ELSE Params(f, consumeParams(lines, f.pos, << >>))
    IN Call(consumeFuncCall(lines))

invokeTail == << NL, commandPrefix, Comma, "invoke", NL >>

parseCommandWithoutEarlyReturn(text) ==
    LET Result(r) == [fc |-> r.fc, text |-> text, err |-> r.err]
    IN Result(Parse(ScanLines(text)))

parseCommandCutsBeforeMarker(text) ==
    LET Result(endIdx, r) == [fc |-> r.fc, text |-> SubSeq(text, 1, endIdx - 1), err |-> r.err]
        Search(endIdx) ==
            IF endIdx = 0 THEN [fc |-> Nil, text |-> text, err |-> "EOF"]
            ELSE Result(endIdx, Parse(ScanLines(text)))
    IN Search(IndexOfFuncEnd(text))

\* parseCommand(text): (fc, text returned alongside, err)
parseCommand(text) ==
    LET Result(endIdx, r) ==
            [fc |-> r.fc, text |-> SubSeq(text, 1, endIdx + 2) \o invokeTail, err |-> r.err]
        Search(endIdx) ==
            IF endIdx = 0 THEN [fc |-> Nil, text |-> text, err |-> "EOF"]
            ELSE Result(endIdx, Parse(ScanLines(text)))
    IN Search(IndexOfFuncEnd(text))

\* ---------------------------------------------------- parser: the input texts

FunctionLine(name) == << commandPrefix, Comma, "function", Comma >> \o name
ParameterLine(name) == << commandPrefix, Comma, "parameter", Comma >> \o name
EndParameterLine == << commandPrefix, Comma, "end_parameter" >>
EndFunctionLine == << commandPrefix, Comma, "end_function" >>

\* Free text before the first directive.
LeadChoices == { << >>, << <<"hi">> >> }

\* The line that should open the call: missing, well formed (the name with and
\* without surrounding blanks), or malformed.
FuncChoices ==
    { << >>,
      << FunctionLine(<<"cat">>) >>,
      << FunctionLine(<<" ", "rg", " ">>) >>,
      << << commandPrefix, Comma, "function" >> >>,
      << << commandPrefix >> >>,
      << << commandPrefix, Comma, "bogus", Comma, "cat" >> >>,
      << FunctionLine(<<"cat", Comma, "x">>) >> }

ParamNames == { <<"a">>, <<"b">> }

\* Bodies: no line, one line, empty lines around a line, and a line that
\* holds the string '<prefix>,end_function' without being a directive.
ParamBodies ==
    { << >>, << <<"foo">> >>, << << >>, <<"foo">>, << >> >>,
      << << "foo", commandPrefix, Comma, "end_function" >> >> }

ParamSegment(name, body) == (<< ParameterLine(name) >> \o body) \o << EndParameterLine >>

GoodSegments == { ParamSegment(n, b) : n \in ParamNames, b \in ParamBodies }

BadSegments ==
    { << << commandPrefix, Comma, "parameter" >>, <<"foo">>, EndParameterLine >>,
      << ParameterLine(<<"a">>), <<"foo">> >>,
      << <<"foo">> >>,
      << << >> >>,
      << << commandPrefix, Comma, "bogus" >> >>,
      << << commandPrefix, Comma, "function" >> >>,
      << << commandPrefix >> >> }

Segments == GoodSegments \cup BadSegments

\* The end of the call: missing, the directive, or the marker inside a line.
EndChoices ==
    { << >>, << EndFunctionLine >>, << << "foo", commandPrefix, Comma, "end_function" >> >> }

TrailChoices == { << >>, << <<"bye">> >> }

Inputs ==
    [ lead : LeadChoices, fn : FuncChoices,
      segs : UNION { [1..n -> Segments] : n \in 0..MaxSegments },
      end : EndChoices, trail : TrailChoices ]

RECURSIVE Flatten(_)
Flatten(ss) == IF ss = << >> THEN << >> ELSE ss[1] \o Flatten(Tail(ss))

LinesOf(in) == (((in.lead \o in.fn) \o Flatten(in.segs)) \o in.end) \o in.trail

TextOf(in) == JoinWith(LinesOf(in), NL)

\* ----------------------------------------------------------- parser: actions

\* p := &cmdParser{scanner: ...}; p.Parse()
RunParse ==
    /\ parsePc = "ready"
    /\ parsePc' = "parsed"
    /\ parserOut' = Parse(ScanLines(TextOf(input)))
    /\ UNCHANGED << input, cmdOut, againOut >>
    /\ UNCHANGED nonParseVars

\* parseCommand(text)
RunParseCommand ==
    /\ parsePc = "ready"
    /\ parsePc' = "done"
    /\ cmdOut' = parseCommand(TextOf(input))
    /\ UNCHANGED << input, parserOut, againOut >>
    /\ UNCHANGED nonParseVars

\* parseCommand(text) on the text a first parseCommand returned
RunParseAgain ==
    /\ parsePc = "done"
    /\ parsePc' = "again"
    /\ againOut' = parseCommand(cmdOut.text)
    /\ UNCHANGED << input, parserOut, cmdOut >>
    /\ UNCHANGED nonParseVars

InitParse ==
    /\ input \in Inputs
    /\ parsePc = "ready"
    /\ parserOut = NoParserOut
    /\ cmdOut = NoCmdOut
    /\ againOut = NoCmdOut
    /\ AccIdle
    /\ RunIdle
    /\ ToolIdle

NextParse == RunParse \/ RunParseCommand \/ RunParseAgain

SpecParse == InitParse /\ [][NextParse]_vars

\* ------------------------------------------------------ parser: the properties

\* The comma-separated fields of a line, as written.
FieldsOf(line) == SplitOn(line, Comma)

IsDirective(line) == line # << >> /\ line[1] = commandPrefix

\* The text is a function directive with three fields, parameter/end_parameter
\* pairs around free-text bodies, and an end_function directive (free text may
\* stand before the function directive and after the end of the call).
WellFormedCall(in) ==
    /\ Len(in.fn) = 1
    /\ Len(FieldsOf(in.fn[1])) = 3
    /\ FieldsOf(in.fn[1])[2] = << "function" >>
    /\ \A i \in 1..Len(in.segs) : in.segs[i] \in GoodSegments
    /\ in.end = << EndFunctionLine >>

\* The (name, body) pairs of the parameter segments, as written.
WrittenParams(in) ==
    [ i \in 1..Len(in.segs) |->
        [ Name |-> FieldsOf(in.segs[i][1])[3],
          Value |-> JoinWith(SubSeq(in.segs[i], 2, Len(in.segs[i]) - 1), NL) ] ]

\* name is field without the blanks around it.
IsFieldWithoutBlanks(name, field) ==
    /\ name = << >> \/ (name[1] \notin WhiteSpace /\ name[Len(name)] \notin WhiteSpace)
    /\ \E i \in 1..(Len(field) + 1) : \E j \in i..(Len(field) + 1) :
          /\ SubSeq(field, i, j - 1) = name
          /\ \A k \in 1..(i - 1) : field[k] \in WhiteSpace
          /\ \A k \in j..Len(field) : field[k] \in WhiteSpace

\* C8 (as claimed): a well-formed call parses without error to the call whose
\* name is the third field of the function directive and whose parameters are
\* the (name, body) pairs in their order of appearance.
ClaimC8 ==
    (parsePc = "done" /\ WellFormedCall(input)) =>
        /\ cmdOut.err = None
        /\ cmdOut.fc # Nil
        /\ cmdOut.fc[1].Name = FieldsOf(input.fn[1])[3]
        /\ cmdOut.fc[1].Parameters = WrittenParams(input)

\* C8 (amended): as claimed, but the name of the call is the third field of
\* the function directive without the white space around it.
TheoremC8 ==
    (parsePc = "done" /\ WellFormedCall(input)) =>
        /\ cmdOut.err = None
        /\ cmdOut.fc # Nil
        /\ IsFieldWithoutBlanks(cmdOut.fc[1].Name, FieldsOf(input.fn[1])[3])
        /\ cmdOut.fc[1].Parameters = WrittenParams(input)

WitnessC8 ==
    /\ parsePc = "done"
    /\ WellFormedCall(input)
    /\ cmdOut.fc # Nil
    /\ cmdOut.fc[1].Name = <<"rg">>
    /\ Len(cmdOut.fc[1].Parameters) = 2
    /\ cmdOut.fc[1].Parameters[1].Name # cmdOut.fc[1].Parameters[2].Name
    /\ cmdOut.fc[1].Parameters[2].Value = << NL, "foo", NL >>

\* No line of the text is a directive with the keyword end_function.
NoEndFunctionDirective(text) ==
    \A i \in 1..Len(ScanLines(text)) :
        LET line == ScanLines(text)[i]
        IN ~(IsDirective(line) /\ Len(FieldsOf(line)) >= 2
               /\ FieldsOf(line)[2] = << "end_function" >>)

\* The string '<prefix>,end_function' occurs nowhere in the text.
NoEndFunctionMarker(text) ==
    \A i \in 1..Len(text) :
        ~(/\ text[i] = commandPrefix
          /\ i + 2 <= Len(text)
          /\ text[i + 1] = Comma
          /\ text[i + 2] = "end_function")

WitnessC9Inline ==
    /\ parsePc = "done"
    /\ NoEndFunctionDirective(TextOf(input))
    /\ ~NoEndFunctionMarker(TextOf(input))
    /\ cmdOut.err = "EOF"

\* A directive line with fewer than 2 fields, or a function or parameter
\* directive that does not have exactly 3 fields.
BadFieldCount(line) ==
    /\ IsDirective(line)
    /\ \/ Len(FieldsOf(line)) < 2
       \/ /\ FieldsOf(line)[2] \in { << "function" >>, << "parameter" >> }
          /\ Len(FieldsOf(line)) # 3

\* C10 (as claimed): a directive with a bad field count among the lines the
\* parser has read makes the parse fail with a syntax error, not end of input.
ClaimC10 ==
    parsePc = "parsed" =>
        \A i \in 1..parserOut.pos :
            BadFieldCount(ScanLines(TextOf(input))[i]) =>
                parserOut.err \notin { None, "EOF" }

\* The function directive of the text opens a call: three fields, the keyword
\* function.
OpensFunction(in) ==
    /\ Len(in.fn) = 1
    /\ Len(FieldsOf(in.fn[1])) = 3
    /\ FieldsOf(in.fn[1])[2] = << "function" >>

\* The segment is one directive line whose keyword is neither parameter nor
\* end_function.
StrayDirective(seg) ==
    /\ Len(seg) = 1
    /\ IsDirective(seg[1])
    /\ Len(FieldsOf(seg[1])) >= 2
    /\ FieldsOf(seg[1])[2] \notin { << "parameter" >>, << "end_function" >> }

\* Segment k stands where parameter or end_function is expected: the call is
\* open and only complete parameters precede it.
ExpectsParamOrEnd(in, k) ==
    /\ OpensFunction(in)
    /\ k \in 1..Len(in.segs)
    /\ \A j \in 1..(k - 1) : in.segs[j] \in GoodSegments

\* C11 (as claimed): a directive with another keyword, met inside an opened
\* function where parameter or end_function is expected, makes the parse fail
\* with an error, and no FunctionCall is returned.
ClaimC11 ==
    (parsePc = "done"
       /\ \E k \in 1..Len(input.segs) :
             ExpectsParamOrEnd(input, k) /\ StrayDirective(input.segs[k])) =>
        (cmdOut.fc = Nil /\ cmdOut.err # None)

\* The segment is free text: lines (at least one), none of them a directive.
FreeText(seg) ==
    /\ seg # << >>
    /\ \A i \in 1..Len(seg) : ~IsDirective(seg[i])

\* The lines of the text after segment k.
LinesAfter(in, k) ==
    (Flatten(SubSeq(in.segs, k + 1, Len(in.segs))) \o in.end) \o in.trail

\* Segment k is free text between directives inside the opened function: only
\* complete parameters precede it, and a directive follows it.
FreeTextBetweenDirectives(in, k) ==
    /\ ExpectsParamOrEnd(in, k)
    /\ FreeText(in.segs[k])
    /\ \E i \in 1..Len(LinesAfter(in, k)) : IsDirective(LinesAfter(in, k)[i])

\* C12 (as claimed): free text between directives inside an opened function,
\* not directly after a parameter directive, makes the parse fail with the
\* 'unexpected text within command' error.
ClaimC12 ==
    (parsePc = "parsed"
       /\ \E k \in 1..Len(input.segs) : FreeTextBetweenDirectives(input, k)) =>
        (parserOut.fc = Nil /\ parserOut.err = "unexpected text within command")

\* The string '<prefix>,end_function' ends at position n of the text.
MarkerEndsAt(text, n) ==
    /\ n \in 3..Len(text)
    /\ text[n - 2] = commandPrefix
    /\ text[n - 1] = Comma
    /\ text[n] = "end_function"

\* No line of the text is a directive with the keyword function.
NoFunctionDirective(text) ==
    \A i \in 1..Len(ScanLines(text)) :
        LET line == ScanLines(text)[i]
        IN ~(IsDirective(line) /\ Len(FieldsOf(line)) >= 2
               /\ TrimSpace(FieldsOf(line)[2]) = << "function" >>)

MarkerBeforeEnd(in) ==
    ~NoEndFunctionMarker(JoinWith((in.lead \o in.fn) \o Flatten(in.segs), NL))

WitnessC14Cut ==
    /\ parsePc = "again"
    /\ WellFormedCall(input)
    /\ MarkerBeforeEnd(input)
    /\ cmdOut.fc # Nil
    /\ againOut.err = "parameter not terminated"

\* The lines written strictly between the parameter directive of a segment
\* and its end_parameter directive.
BodyLines(seg) == SubSeq(seg, 2, Len(seg) - 1)

\* Parse has returned a call for a text whose segments are all parameters.
ParsedParams ==
    /\ parsePc = "parsed"
    /\ parserOut.err = None
    /\ \A i \in 1..Len(input.segs) : input.segs[i] \in GoodSegments

\* C32: the value of a parameter is the lines between its parameter directive
\* and the following end_parameter directive with one newline between two
\* lines: empty when there is no line, and cut at its newlines it gives back
\* the lines, empty ones at the start, inside and at the end included.
TheoremC32 ==
    ParsedParams =>
        /\ Len(parserOut.fc[1].Parameters) = Len(input.segs)
        /\ \A i \in 1..Len(input.segs) :
              IF BodyLines(input.segs[i]) = << >>
                THEN parserOut.fc[1].Parameters[i].Value = << >>
                ELSE SplitOn(parserOut.fc[1].Parameters[i].Value, NL)
                       = BodyLines(input.segs[i])

\* A parameter without a line and one with empty lines around a line.
WitnessC32 ==
    /\ ParsedParams
    /\ Len(input.segs) = 2
    /\ BodyLines(input.segs[1]) = << >>
    /\ BodyLines(input.segs[2]) = << << >>, <<"foo">>, << >> >>
    /\ parserOut.fc[1].Parameters[1].Value = << >>
    /\ parserOut.fc[1].Parameters[2].Value = << NL, "foo", NL >>

\* Segment k is a parameter directive followed by lines of which none is a
\* directive, where a parameter is expected: its end_parameter is missing.
UnterminatedAt(in, k) ==
    /\ ExpectsParamOrEnd(in, k)
    /\ IsDirective(in.segs[k][1])
    /\ Len(FieldsOf(in.segs[k][1])) = 3
    /\ FieldsOf(in.segs[k][1])[2] = << "parameter" >>
    /\ \A i \in 2..Len(in.segs[k]) : ~IsDirective(in.segs[k][i])

\* The positions, among the lines after segment k, of the directives.
DirectivesAfter(in, k) ==
    { i \in 1..Len(LinesAfter(in, k)) : IsDirective(LinesAfter(in, k)[i]) }

\* The number of lines of the text up to the end of segment k.
LinesThrough(in, k) == Len(in.lead) + 1 + Len(Flatten(SubSeq(in.segs, 1, k)))

\* C33: a parameter whose body is followed by a directive other than
\* end_parameter makes the parse fail with 'parameter not terminated'; the
\* body ends at the first following line that starts with the prefix (a line
\* of the prefix alone fails the parse as an invalid line, and without any
\* such line the parse ends with end of input).
TheoremC33 ==
    parsePc = "parsed" =>
        \A k \in 1..Len(input.segs) :
            UnterminatedAt(input, k) =>
                /\ parserOut.fc = Nil
                /\ IF DirectivesAfter(input, k) = {} THEN parserOut.err = "EOF"
                   ELSE LET d == First(DirectivesAfter(input, k))
                        IN /\ parserOut.pos = LinesThrough(input, k) + d
                           /\ parserOut.err =
                                IF Len(FieldsOf(LinesAfter(input, k)[d])) < 2
                                  THEN "invalid function call line"
                                  ELSE "parameter not terminated"

\* A parameter body that runs into the end_function directive.
WitnessC33 ==
    /\ parsePc = "parsed"
    /\ Len(input.segs) = 2
    /\ UnterminatedAt(input, 2)
    /\ input.end = << EndFunctionLine >>
    /\ parserOut.err = "parameter not terminated"

\* A parameter body that runs into the next parameter directive.
WitnessC33Parameter ==
    /\ parsePc = "parsed"
    /\ Len(input.segs) = 2
    /\ UnterminatedAt(input, 1)
    /\ input.segs[2] \in GoodSegments
    /\ parserOut.err = "parameter not terminated"
    /\ parserOut.pos = LinesThrough(input, 1) + 1

\* The text is a function directive followed by complete parameters (at
\* least one) and by nothing else: the end_function directive is missing.
NoEndFunction(in) ==
    /\ OpensFunction(in)
    /\ in.segs # << >>
    /\ \A i \in 1..Len(in.segs) : in.segs[i] \in GoodSegments
    /\ in.end = << >>
    /\ in.trail = << >>

\* C34 (as claimed): parseCommand applied to a function directive followed by
\* parameters that are all terminated, with no end_function directive,
\* returns without error the call with that name and those parameters.
ClaimC34 ==
    (parsePc = "done" /\ NoEndFunction(input)) =>
        /\ cmdOut.err = None
        /\ cmdOut.fc # Nil
        /\ cmdOut.fc[1].Parameters = WrittenParams(input)

\* The positions of the end_function directives among the lines of the text.
EndFunctionDirectives(in) ==
    { i \in 1..Len(LinesOf(in)) :
        /\ IsDirective(LinesOf(in)[i])
        /\ FieldsOf(LinesOf(in)[i]) = << << commandPrefix >>, << "end_function" >> >> }

\* C36 (as claimed): for a text that contains an end_function directive, the
\* text parseCommand returns is the text up to and including the first
\* end_function directive, followed by a newline and the invoke line; what
\* the text holds after that directive is absent.
ClaimC36 ==
    (parsePc = "done" /\ EndFunctionDirectives(input) # {}) =>
        cmdOut.text =
            JoinWith(SubSeq(LinesOf(input), 1, First(EndFunctionDirectives(input))), NL)
              \o invokeTail

\* ============================================================== Runner.Run

\* ------------------------------------------------------- Run: the user input
Slash == "/"

Command(word) == << Slash, word >>
CommandWith(word, arg) == << Slash, word, " " >> \o arg

\* What one readline.Readline call can return besides a line.
ReadFailures == { "ErrInterrupt", "EOF", "read error" }

\* The lines one input can consist of when multiline is off: one line.
SingleLineInputs ==
    { << <<"hello">> >>, << << >> >>, << << " ", Slash, "reset" >> >> }
      \cup { << Command(w) >> : w \in { "help", "reset", "multiline", "model", "system",
                                        "history", "info", "quit", "bogus" } }
      \cup { << CommandWith("model", <<"opus">>) >>,
             << CommandWith("system", <<"RESET">>) >>,
             << CommandWith("system", <<"LIST">>) >>,
             << CommandWith("system", <<"short">>) >> }

\* With multiline on: a first line that starts with '/' ends the input, else
\* the lines read until end of file.
MultiLineInputs ==
    { in \in SingleLineInputs : in[1] # << >> /\ in[1][1] = Slash }
      \cup { << >>, << <<"hello">>, <<"world">> >>, << << " ", Slash, "reset" >> >> }

\* r.CustomPrompts: the names and prompts of the configuration.
CustomPrompts == { [Name |-> <<"short">>, Prompt |-> <<"be", " ", "short">>] }

\* newSystemPromptBuilder("", customPrompt.Prompt).String()
CustomSystemPrompt(prompt) == << "custom_template:" >> \o prompt

\* strings.SplitN(s, " ", 2)
SplitN2(s) ==
    LET hits == { i \in 1..Len(s) : s[i] = " " }
    IN IF hits = {} THEN << s >>
       ELSE LET i == CHOOSE h \in hits : \A m \in hits : h <= m
            IN << SubSeq(s, 1, i - 1), SubSeq(s, i + 1, Len(s)) >>

\* strings.TrimSpace(strings.Join(promptLines, "\n"))
UserPromptOf(promptLines) == TrimSpace(JoinWith(promptLines, NL))

IsSlashInputNever(userPrompt) == FALSE

IsSlashInputKnownOnly(userPrompt) ==
    /\ userPrompt # << >>
    /\ userPrompt[1] = Slash
    /\ Len(userPrompt) >= 2 => userPrompt[2] # "bogus"

IsSlashInput(userPrompt) == userPrompt # << >> /\ userPrompt[1] = Slash

\* ------------------------------------------------------ Run: the TurnResults

TextBlock(text) ==
    [Text |-> text, Typ |-> "text", Idx |-> 0, ToolName |-> << >>, ToolID |-> << >>]

ToolUseBlock ==
    [Text |-> <<"{}">>, Typ |-> "tool_use", Idx |-> 0, ToolName |-> <<"t">>, ToolID |-> <<"i">>]

CallText(name, segs) ==
    JoinWith((<< FunctionLine(name) >> \o Flatten(segs)) \o << EndFunctionLine >>, NL)

PlainText == << "ok" >>
CatText == CallText(<<"cat">>, << ParamSegment(<<"filename">>, << <<"f">> >>) >>)
RgText == CallText(<<"rg">>, << ParamSegment(<<"pattern">>, << <<"p">> >>),
                               ParamSegment(<<"directory">>, << <<"d">> >>) >>)
\* The same parameter given twice.
DupText == CallText(<<"cat">>, << ParamSegment(<<"filename">>, << <<"f">> >>),
                                ParamSegment(<<"filename">>, << <<"g">> >>) >>)
ReplaceText ==
    CallText(<<"replace_string_in_file">>,
             << ParamSegment(<<"filename">>, << <<"f">> >>),
                ParamSegment(<<"original_string">>, << <<"a">> >>),
                ParamSegment(<<"new_string">>, << <<"b">> >>),
                ParamSegment(<<"count">>, << <<"-1">> >>) >>)
\* A tool that does not exist.
FrobText == CallText(<<"frob">>, << >>)
\* A malformed directive before the end of the call.
BadText == JoinWith(<< << commandPrefix, Comma, "bogus" >>, EndFunctionLine >>, NL)
\* A call that is never closed.
OpenText == JoinWith(<< FunctionLine(<<"cat">>) >>, NL)
\* Prose that mentions the string '<prefix>,end_function' inside a line.
MentionText == << "see", " ", commandPrefix, Comma, "end_function", " ", "there" >>
\* Free text around a call.
WrappedText == (<< "hi", NL >> \o CatText) \o << NL, "bye" >>

Responses ==
    { << TextBlock(PlainText) >>,
      << TextBlock(CatText) >>,
      << TextBlock(RgText) >>,
      << TextBlock(DupText) >>,
      << TextBlock(ReplaceText) >>,
      << TextBlock(FrobText) >>,
      << TextBlock(BadText) >>,
      << TextBlock(OpenText) >>,
      << TextBlock(MentionText) >>,
      << TextBlock(WrappedText) >>,
      << TextBlock(CatText), TextBlock(RgText) >>,
      << TextBlock(CatText), TextBlock(BadText) >>,
      << TextBlock(CatText), TextBlock(FrobText) >>,
      << ToolUseBlock, TextBlock(PlainText) >> }

\* ---------------------------------------------------- Run: deriving the Cmd

RECURSIVE ParamMapGetFirst(_, _)
ParamMapGetFirst(params, key) ==
    IF params = << >> THEN << >>
    ELSE IF params[1].Name = key THEN params[1].Value
    ELSE ParamMapGetFirst(SubSeq(params, 2, Len(params)), key)

RECURSIVE ParamMapGet(_, _)
\* paramMap[key] after the loop paramMap[p.Name] = p.Value over params: the
\* value of the last parameter with that name, "" when there is none.
ParamMapGet(params, key) ==
    IF params = << >> THEN << >>
    ELSE IF params[Len(params)].Name = key THEN params[Len(params)].Value
    ELSE ParamMapGet(SubSeq(params, 1, Len(params) - 1), key)

\* strconv.Atoi on the count parameter, its error dropped (0 on failure).
Atoi(str) ==
    IF str = << "-1" >> THEN -1
    ELSE IF str = << "1" >> THEN 1
    ELSE IF str = << "2" >> THEN 2
    ELSE 0

KnownTools ==
    { <<"list_files">>, <<"rg">>, <<"cat">>, <<"write_file">>, <<"append_to_file">>,
      <<"replace_string_in_file">> }

\* The Cmd built by the switch on functionCall.Name.
CmdOf(fc) ==
    LET get(key) == ParamMapGet(fc.Parameters, << key >>)
        none == << >>
        base == [tool |-> fc.Name, Pattern |-> none, Directory |-> none,
                 Filename |-> none, Content |-> none, OriginalString |-> none,
                 NewString |-> none, Count |-> 0]
    IN IF fc.Name = <<"list_files">> THEN [base EXCEPT !.Pattern = get("pattern")]
       ELSE IF fc.Name = <<"rg">>
         THEN [base EXCEPT !.Pattern = get("pattern"), !.Directory = get("directory")]
       ELSE IF fc.Name = <<"cat">> THEN [base EXCEPT !.Filename = get("filename")]
       ELSE IF fc.Name \in { <<"write_file">>, <<"append_to_file">> }
         THEN [base EXCEPT !.Filename = get("filename"), !.Content = get("content")]
       ELSE [base EXCEPT !.Filename = get("filename"),
                         !.OriginalString = get("original_string"),
                         !.NewString = get("new_string"),
                         !.Count = Atoi(get("count"))]

\* One entry of a turn's Content: a text, or a block passed through.
TextContent(text) == [kind |-> "text", text |-> text, blk |-> Nil]
BlockContent(blk) == [kind |-> "block", text |-> blk.Text, blk |-> Ptr(blk)]

AfterParseKeepsFirst(contents, c, r) ==
    LET With(more) ==
            IF r.err = "EOF" THEN [contents |-> more, cmd |-> c, err |-> None]
            ELSE IF r.err # None THEN [contents |-> more, cmd |-> c, err |-> r.err]
            ELSE IF r.fc[1].Name \notin KnownTools
              THEN [contents |-> more, cmd |-> c, err |-> "unknown tool"]
            ELSE [contents |-> more, cmd |-> IF c # Nil THEN c ELSE Ptr(CmdOf(r.fc[1])),
                  err |-> None]
    IN With(Append(contents, TextContent(r.text)))

AfterParseIgnoresErrors(contents, c, r) ==
    LET With(more) ==
            IF r.err # None THEN [contents |-> more, cmd |-> c, err |-> None]
            ELSE IF r.fc[1].Name \notin KnownTools
              THEN [contents |-> more, cmd |-> c, err |-> None]
            ELSE [contents |-> more, cmd |-> Ptr(CmdOf(r.fc[1])), err |-> None]
    IN With(Append(contents, TextContent(r.text)))

\* The body of the loop for a text block whose parseCommand outcome is r: the
\* text is kept, and a call becomes the Cmd of its tool.
AfterParse(contents, c, r) ==
    LET With(more) ==
            IF r.err = "EOF" THEN [contents |-> more, cmd |-> c, err |-> None]
            ELSE IF r.err # None THEN [contents |-> more, cmd |-> c, err |-> r.err]
            ELSE IF r.fc[1].Name \notin KnownTools
              THEN [contents |-> more, cmd |-> c, err |-> "unknown tool"]
            ELSE [contents |-> more, cmd |-> Ptr(CmdOf(r.fc[1])), err |-> None]
    IN With(Append(contents, TextContent(r.text)))

\* The body of the loop for one block: a block that is not text is passed
\* through, a text block is searched for a call.
HandleBlock(blk, contents, c) ==
    IF blk.Typ # "text"
      THEN [contents |-> Append(contents, BlockContent(blk)), cmd |-> c, err |-> None]
      ELSE AfterParse(contents, c, parseCommand(blk.Text))

RECURSIVE HandleBlocks(_, _, _, _)
RECURSIVE AfterBlock(_, _, _)
AfterBlockGoesOn(blocks, i, step) ==
    HandleBlocks(blocks, i + 1, step.contents, step.cmd)

\* An error returned by the body ends the loop, else the next block is taken.
AfterBlock(blocks, i, step) ==
    IF step.err # None THEN step
    ELSE HandleBlocks(blocks, i + 1, step.contents, step.cmd)

\* for _, content := range respMeta.Content { ... }: from block i on, with the
\* contents and the Cmd collected so far.
HandleBlocks(blocks, i, contents, c) ==
    IF i > Len(blocks) THEN [contents |-> contents, cmd |-> c, err |-> None]
    ELSE AfterBlock(blocks, i, HandleBlock(blocks[i], contents, c))

UserTurnAsAssistant(text) ==
    [Role |-> "assistant", Content |-> << TextContent(text) >>, InputTokens |-> 0,
     OutputTokens |-> 0]

\* The turn appended for a user prompt, and for a tool response.
UserTurn(text) ==
    [Role |-> "user", Content |-> << TextContent(text) >>, InputTokens |-> 0,
     OutputTokens |-> 0]

AssistantTurn(contents) ==
    [Role |-> "assistant", Content |-> contents, InputTokens |-> 1, OutputTokens |-> 1]

\* The <function_result> envelope, by its three fields.
Envelope(stdout, stderr, exitCode) ==
    << "<function_result>", "<stdout>" >> \o stdout \o << "</stdout>", "<stderr>" >>
        \o stderr \o << "</stderr>", "<exit_code>", exitCode, "</exit_code>",
                        "</function_result>" >>

AcceptsAlways(line) == TRUE

AcceptsAnyCase(line) == TrimSpace(line) \in { << "y" >>, << "Y" >> }

\* line = strings.TrimSpace(line); if line == "y" { acceptCmd = true }
Accepts(line) == TrimSpace(line) = << "y" >>

\* The outcome of the block loop for each response.
Handled == [ blocks \in Responses |-> HandleBlocks(blocks, 1, << >>, Nil) ]

\* What the user can type at the "ok? (y/N):" prompt.
Answers == { << "y", NL >>, << " ", "y", " ", NL >>, << "Y", NL >>, << "n", NL >>, << NL >> }

MessagesOfNone(ts) == << >>

\* ts[i] = t.MessageTurn
MessagesOf(ts) == [ i \in 1..Len(ts) |-> [Role |-> ts[i].Role, Content |-> ts[i].Content] ]

\* ----------------------------------------------------------- Run: the actions
InitRun ==
    /\ runPc = "top"
    /\ turns = << >>
    /\ multiline = FALSE
    /\ model = << "sonnet" >>
    /\ override = Nil
    /\ cmd = Nil
    /\ runErr = None
    /\ inputsRead = 0
    /\ lastInput = Nil
    /\ reqCount = 0
    /\ reqMessages = << >>
    /\ shown = Nil
    /\ answer = Nil
    /\ response = << >>
    /\ ran = Nil
    /\ sinceReset = << >>
    /\ AccIdle
    /\ ParseIdle
    /\ ToolIdle

logVars == << shown, answer, response, ran >>
reqVars == << reqCount, reqMessages >>
settingVars == << multiline, model, override >>

\* The top of the outer loop: the system prompt is built.
RunBuildPrompt ==
    /\ runPc = "top"
    /\ runPc' = "prompt"
    /\ lastInput' = Nil
    /\ cmd' = Nil
    /\ shown' = Nil
    /\ answer' = Nil
    /\ response' = << >>
    /\ ran' = Nil
    /\ UNCHANGED << turns, sinceReset, settingVars, runErr, inputsRead, reqVars >>
    /\ UNCHANGED nonRunVars

\* exec.Command("rg", "--files") fails while the default prompt is built.
RunBuildPromptFail ==
    /\ runPc = "top"
    /\ override = Nil
    /\ runPc' = "done"
    /\ runErr' = "rg --files failed"
    /\ UNCHANGED << turns, sinceReset, settingVars, cmd, inputsRead, lastInput, reqVars, logVars >>
    /\ UNCHANGED nonRunVars

\* Readline fails before an input is complete: ctrl-c and end of file end the
\* session without an error, any other error is returned.  With multiline on,
\* end of file only ends the input (see RunReadCommand and RunReadPrompt).
RunReadEnd ==
    \E failure \in ReadFailures :
        /\ runPc = "prompt"
        /\ failure = "EOF" => ~multiline
        /\ runPc' = "done"
        /\ runErr' = IF failure = "read error" THEN failure ELSE None
        /\ UNCHANGED << turns, sinceReset, settingVars, cmd, inputsRead, lastInput, reqVars,
                        logVars >>
        /\ UNCHANGED nonRunVars

InputsNow == IF multiline THEN MultiLineInputs ELSE SingleLineInputs

\* /system ...
OverrideAfterSystem(userPrompt) ==
    LET arg == TrimSpace(SubSeq(userPrompt, 3, Len(userPrompt)))
        matches == { c \in CustomPrompts : c.Name = arg }
    IN IF arg = << >> \/ arg = << "LIST" >> THEN override
       ELSE IF arg = << "RESET" >> THEN Nil
       ELSE IF matches # {}
         THEN Ptr(CustomSystemPrompt((CHOOSE c \in matches : TRUE).Prompt))
       ELSE Ptr(arg)

TurnsAfterCommandKeeps(word, ts) == ts

TurnsAfterCommandClearsOnAny(word, ts) == << >>

\* case "/reset": turns = []turnContent{}; no other command assigns turns.
TurnsAfterCommand(word, ts) == IF word = Command("reset") THEN << >> ELSE ts

\* The input is a '/' command: the switch on its first word.
RunReadCommand ==
    \E promptLines \in InputsNow :
        LET userPrompt == UserPromptOf(promptLines)
            word == SplitN2(userPrompt)[1]
        IN /\ runPc = "prompt"
           /\ inputsRead < MaxInputs
           /\ IsSlashInput(userPrompt)
           /\ inputsRead' = inputsRead + 1
           /\ lastInput' = Ptr(userPrompt)
           /\ runPc' = IF word = Command("quit") THEN "done" ELSE "top"
           /\ turns' = TurnsAfterCommand(word, turns)
           /\ sinceReset' = IF word = Command("reset") THEN << >> ELSE sinceReset
           /\ multiline' = IF word = Command("multiline") THEN ~multiline ELSE multiline
           /\ model' = IF word = Command("model") /\ Len(SplitN2(userPrompt)) > 1
                         THEN SplitN2(userPrompt)[2] ELSE model
           /\ override' = IF word = Command("system")
                            THEN OverrideAfterSystem(userPrompt) ELSE override
           /\ UNCHANGED << cmd, runErr, reqVars, logVars >>
           /\ UNCHANGED nonRunVars

\* Any other input becomes a user turn and the first request is issued.
RunReadPrompt ==
    \E promptLines \in InputsNow :
        LET userPrompt == UserPromptOf(promptLines)
        IN /\ runPc = "prompt"
           /\ inputsRead < MaxInputs
           /\ Len(turns) < MaxTurns
           /\ ~IsSlashInput(userPrompt)
           /\ inputsRead' = inputsRead + 1
           /\ lastInput' = Ptr(userPrompt)
           /\ turns' = Append(turns, UserTurn(userPrompt))
           /\ sinceReset' = Append(sinceReset, UserTurn(userPrompt))
           /\ reqCount' = reqCount + 1
           /\ reqMessages' = MessagesOf(turns')
           /\ runPc' = "request"
           /\ UNCHANGED << settingVars, cmd, runErr, logVars >>
           /\ UNCHANGED nonRunVars

\* acc.Complete returns an error: Run returns it.
RunRequestFail ==
    /\ runPc = "request"
    /\ runPc' = "done"
    /\ runErr' = "request failed"
    /\ UNCHANGED << turns, sinceReset, settingVars, cmd, inputsRead, lastInput, reqVars, logVars >>
    /\ UNCHANGED nonRunVars

\* acc.Complete returns the TurnResult and the display goroutine has exited:
\* the blocks are parsed, the assistant turn is appended, and a derived Cmd is
\* shown for confirmation.
RunReceive ==
    \E blocks \in Responses :
        LET h == Handled[blocks]
        IN /\ runPc = "request"
           /\ Len(turns) < MaxTurns
           /\ IF h.err # None
                THEN /\ runPc' = "done"
                     /\ runErr' = h.err
                     /\ UNCHANGED << turns, sinceReset, cmd, shown, answer, reqMessages >>
                ELSE /\ turns' = Append(turns, AssistantTurn(h.contents))
                     /\ sinceReset' = Append(sinceReset, AssistantTurn(h.contents))
                     /\ cmd' = h.cmd
                     /\ runPc' = IF h.cmd # Nil THEN "confirm" ELSE "top"
                     /\ shown' = h.cmd
                     /\ answer' = Nil
                     /\ reqMessages' = << >>
                     /\ UNCHANGED runErr
           /\ response' = blocks
           /\ ran' = Nil
           /\ UNCHANGED << settingVars, inputsRead, lastInput, reqCount >>
           /\ UNCHANGED nonRunVars

\* stdin.ReadString('\n') fails at the confirmation prompt.
RunAnswerFail ==
    /\ runPc = "confirm"
    /\ runPc' = "done"
    /\ runErr' = "Error reading from stdin"
    /\ UNCHANGED << turns, sinceReset, settingVars, cmd, inputsRead, lastInput, reqVars, logVars >>
    /\ UNCHANGED nonRunVars

\* The user answers the prompt: "y" starts the tool, anything else ends the
\* tool loop of this round.
RunAnswer ==
    \E line \in Answers :
        /\ runPc = "confirm"
        /\ answer' = Ptr(line)
        /\ runPc' = IF Accepts(line) THEN "exec" ELSE "top"
        /\ UNCHANGED << turns, sinceReset, settingVars, cmd, shown, response, ran, runErr, inputsRead,
                        lastInput, reqVars >>
        /\ UNCHANGED nonRunVars

ToolFailuresAny(c) == { None, "tool failed" }

\* The errors cmd.Run() can return: RGArgs.Run never returns one.
ToolFailures(c) == IF c.tool = <<"rg">> THEN { None } ELSE { None, "tool failed" }

\* The output returned along with the error: only CatArgs.Run returns what it
\* has read, the others return "" with an error. When its command fails,
\* RGArgs.Run returns the text "cmd err:... output:..." as its output.
ToolOutputs(c, failure) ==
    IF failure # None THEN (IF c.tool = <<"cat">> THEN { << >>, << "out" >> } ELSE { << >> })
    ELSE IF c.tool = <<"rg">> THEN { << >>, << "out" >>, << "cmd err:", "output:" >> }
    ELSE { << >>, << "out" >> }

ToolResponseAsAssistant(out, failure) ==
    AssistantTurn(<< TextContent(IF failure = None THEN Envelope(out, << >>, "0")
                                                   ELSE Envelope(out, << failure >>, "1")) >>)

ToolResponseDropsError(out, failure) == UserTurn(Envelope(out, << >>, "0"))

\* toolResp: stderr and errorCode are set only when cmd.Run() returned an error.
ToolResponse(out, failure) ==
    UserTurn(IF failure = None THEN Envelope(out, << >>, "0")
                               ELSE Envelope(out, << failure >>, "1"))

\* cmd.Run() returns: the envelope is appended as a user turn and the next
\* request is issued (moreWork = true).
RunToolDone ==
    /\ runPc = "exec"
    /\ Len(turns) < MaxTurns
    /\ \E failure \in ToolFailures(cmd[1]) : \E out \in ToolOutputs(cmd[1], failure) :
          /\ turns' = Append(turns, ToolResponse(out, failure))
          /\ sinceReset' = Append(sinceReset, ToolResponse(out, failure))
          /\ ran' = Ptr([out |-> out, err |-> failure])
    /\ reqCount' = reqCount + 1
    /\ reqMessages' = MessagesOf(turns')
    /\ runPc' = "request"
    /\ shown' = Nil
    /\ answer' = Nil
    /\ response' = << >>
    /\ UNCHANGED << settingVars, cmd, runErr, inputsRead, lastInput >>
    /\ UNCHANGED nonRunVars

NextRun ==
    \/ RunBuildPrompt
    \/ RunBuildPromptFail
    \/ RunReadEnd
    \/ RunReadCommand
    \/ RunReadPrompt
    \/ RunRequestFail
    \/ RunReceive
    \/ RunAnswerFail
    \/ RunAnswer
    \/ RunToolDone

SpecRun == InitRun /\ [][NextRun]_vars

\* ------------------------------------------------------ Run: the properties

\* The answer, with the blanks around it removed, is the single letter y.
AnsweredY == answer # Nil /\ IsFieldWithoutBlanks(<< "y" >>, answer[1])

\* C1: cmd.Run is called only after the user answered the confirmation prompt
\* of that very invocation with "y" (blanks around it removed); after any other
\* answer the round ends with no tool executed: control is back at the outer
\* loop, or Run has returned from there.
TheoremC1 ==
    /\ runPc = "exec" => (shown # Nil /\ cmd = shown /\ AnsweredY)
    /\ (answer # Nil /\ ~AnsweredY) => runPc \in { "top", "done" }

WitnessC1 ==
    /\ runPc = "exec"
    /\ answer = Ptr(<< " ", "y", " ", NL >>)
    /\ shown = cmd
    /\ Len(turns) >= 4

WitnessC1Declined ==
    /\ runPc = "top"
    /\ shown # Nil
    /\ answer = Ptr(<< "Y", NL >>)
    /\ turns[Len(turns)].Role = "assistant"

\* The block is a text block that holds a complete directive: a call can be
\* parsed from its text.
HoldsCall(blk) == blk.Typ = "text" /\ Parse(ScanLines(blk.Text)).fc # Nil

\* The blocks of the response received in this round that hold a call.
CallBlocks == { i \in 1..Len(response) : HoldsCall(response[i]) }

LastCallBlock == CHOOSE i \in CallBlocks : \A j \in CallBlocks : j <= i

\* The one invocation offered for confirmation, and run, is that of the last
\* block of the turn that holds a call.
OneInvocationPerTurn ==
    runPc \in { "confirm", "exec" } =>
        /\ CallBlocks # {}
        /\ shown # Nil
        /\ shown[1].tool = Parse(ScanLines(response[LastCallBlock].Text)).fc[1].Name
        /\ cmd = shown
        /\ turns[Len(turns)].Role = "assistant"

\* A confirmation is requested only as a response arrives and its assistant
\* turn is appended; a tool starts only from that confirmation; and the end
\* of the tool's run appends a turn and issues the next request, so that a
\* second run needs a new assistant turn.
OneRunPerTurn ==
    /\ (runPc' = "confirm" /\ runPc # "confirm") =>
          /\ runPc = "request"
          /\ Len(turns') = Len(turns) + 1
          /\ turns'[Len(turns')].Role = "assistant"
    /\ (runPc' = "exec" /\ runPc # "exec") =>
          (runPc = "confirm" /\ turns' = turns /\ response' = response)
    /\ (runPc = "exec" /\ runPc' # "exec") =>
          (runPc' = "request" /\ Len(turns') = Len(turns) + 1)

\* C15: from one assistant turn at most one invocation is derived and at most
\* one tool is executed; when several text blocks of the turn hold a complete
\* directive, the invocation of the last one is offered for confirmation.
TheoremC15 == []OneInvocationPerTurn /\ [][OneRunPerTurn]_vars

\* Two blocks of the turn hold a call, and the tool of the second is running.
WitnessC15 ==
    /\ runPc = "exec"
    /\ Cardinality(CallBlocks) = 2
    /\ shown[1].tool = <<"rg">>
    /\ Parse(ScanLines(response[1].Text)).fc[1].Name = <<"cat">>

\* The local commands the switch recognizes.
LocalCommands ==
    { "help", "reset", "model", "system", "history", "info", "multiline", "quit" }

\* The prompt is a recognized local command: '/', the command word, and
\* nothing more or a blank and an argument.
IsLocalCommand(prompt) ==
    /\ Len(prompt) >= 2
    /\ prompt[1] = Slash
    /\ prompt[2] \in LocalCommands
    /\ Len(prompt) = 2 \/ prompt[3] = " "

\* A step that reads user input which is a recognized local command.
ReadsLocalCommand ==
    /\ inputsRead' = inputsRead + 1
    /\ lastInput' # Nil
    /\ IsLocalCommand(lastInput'[1])

WitnessC16Kept ==
    /\ lastInput = Ptr(CommandWith("model", <<"opus">>))
    /\ runPc = "top"
    /\ Len(turns) >= 2
    /\ model = <<"opus">>

\* No text block of the response holds an end_function directive, so that
\* none holds a complete directive.
NoCompleteDirective(blocks) ==
    \A i \in 1..Len(blocks) :
        blocks[i].Typ = "text" => NoEndFunctionDirective(blocks[i].Text)

\* C17 (as claimed): when no text block of the received TurnResult holds a
\* complete directive, the assistant turn is appended with every block's text
\* unchanged, no confirmation is requested, no tool is run, and control is
\* back at the input loop with no request in flight.
ClaimC17 ==
    (response # << >> /\ NoCompleteDirective(response)) =>
        /\ runPc \in { "top", "done" }
        /\ runErr \in { None, "rg --files failed" }
        /\ turns[Len(turns)].Role = "assistant"
        /\ Len(turns[Len(turns)].Content) = Len(response)
        /\ \A i \in 1..Len(response) : turns[Len(turns)].Content[i].text = response[i].Text
        /\ shown = Nil
        /\ answer = Nil
        /\ reqMessages = << >>

\* The confirmation of this round has been declined: control is at the input
\* loop (or Run has returned from there), the assistant turn that carried the
\* directive is the last turn, and no request is in flight.
DeclinedRound ==
    (answer # Nil /\ ~AnsweredY) =>
        /\ runPc \in { "top", "done" }
        /\ shown # Nil
        /\ turns[Len(turns)].Role = "assistant"
        /\ reqMessages = << >>

\* The step that reads a declining answer appends no turn and issues no
\* request; and a request is issued only by a step that reads user input or
\* by the end of a tool's run.
DeclineStep ==
    /\ (answer = Nil /\ answer' # Nil /\ ~AnsweredY') =>
          (turns' = turns /\ reqCount' = reqCount /\ runPc' = "top")
    /\ reqCount' # reqCount => (inputsRead' = inputsRead + 1 \/ runPc = "exec")

\* C18: when the user declines the confirmation, the tool loop of the round
\* ends: the assistant turn is already in the history, no tool is run, no
\* tool-result turn is appended, and no request is issued until new user
\* input is read.
TheoremC18 == []DeclinedRound /\ [][DeclineStep]_vars

\* A round declined with "n" after an earlier tool had run in the same round.
WitnessC18 ==
    /\ answer = Ptr(<< "n", NL >>)
    /\ runPc = "top"
    /\ Len(turns) = 4
    /\ turns[3].Role = "user"
    /\ turns[4].Role = "assistant"

\* The text of the last turn is a <function_result> envelope with some
\* stdout, stderr and exit code.
EnvelopeParts(text) ==
    { p \in [ out : { << >>, << "out" >>, << "cmd err:", "output:" >> }, err : { << >>, << "tool failed" >> },
              code : { "0", "1" } ] :
        text = << "<function_result>", "<stdout>" >> \o p.out
                 \o << "</stdout>", "<stderr>" >> \o p.err
                 \o << "</stderr>", "<exit_code>", p.code, "</exit_code>",
                       "</function_result>" >> }

\* The tool of this round has run: its result is the last turn, a user turn
\* that holds one envelope and stands directly after the assistant turn, and
\* the request that carries it has been issued.
ToolResultAppended ==
    ran # Nil =>
        /\ runPc \in { "request", "done" }
        /\ Len(turns) >= 2
        /\ turns[Len(turns)].Role = "user"
        /\ Len(turns[Len(turns)].Content) = 1
        /\ EnvelopeParts(turns[Len(turns)].Content[1].text) # {}
        /\ turns[Len(turns) - 1].Role = "assistant"
        /\ reqMessages = MessagesOf(turns)

\* An accepting answer starts the tool; the end of its run appends exactly
\* one turn and issues exactly one request, with no user input read.
AcceptStep ==
    /\ (answer = Nil /\ answer' # Nil /\ AnsweredY') => (runPc' = "exec" /\ turns' = turns)
    /\ (runPc = "exec" /\ runPc' # "exec") =>
          /\ ran' # Nil
          /\ Len(turns') = Len(turns) + 1
          /\ SubSeq(turns', 1, Len(turns)) = turns
          /\ reqCount' = reqCount + 1
          /\ inputsRead' = inputsRead
          /\ runPc' = "request"

\* C19: when the user accepts, the tool is run once, its result envelope is
\* appended as a user turn directly after the assistant turn, whether it
\* succeeded or failed, and a new request is issued without reading a prompt.
TheoremC19 == []ToolResultAppended /\ [][AcceptStep]_vars

\* The request after a tool that succeeded with output.
WitnessC19 ==
    /\ ran # Nil
    /\ ran[1].err = None
    /\ ran[1].out = << "out" >>
    /\ runPc = "request"
    /\ inputsRead = 1
    /\ reqCount = 2
    /\ Len(turns) = 3

\* The tool of this round returned an error.
ToolFailed == ran # Nil /\ ran[1].err # None

\* After a failed tool the loop goes on: the last turn is a user turn whose
\* envelope has the error text in stderr and a non-zero exit code, the next
\* request carries it, and the error is not what Run returns.
FailedToolFedBack ==
    ToolFailed =>
        /\ turns[Len(turns)].Role = "user"
        /\ \E p \in EnvelopeParts(turns[Len(turns)].Content[1].text) :
              /\ p.err = << ran[1].err >>
              /\ p.code # "0"
              /\ p.out = ran[1].out
        /\ reqMessages = MessagesOf(turns)
        /\ runErr # ran[1].err
        /\ runPc = "done" => runErr = "request failed"

\* The step on which the tool fails issues the next request.
FailedToolStep == (~ToolFailed /\ ToolFailed') => (runPc' = "request" /\ runErr' = None)

\* C20: an error returned by a confirmed tool does not end Run; a user turn
\* with a non-zero exit_code and the error text in stderr is appended and a
\* new request is issued.
TheoremC20 == []FailedToolFedBack /\ [][FailedToolStep]_vars

\* The request that follows a failed tool.
WitnessC20 ==
    /\ ToolFailed
    /\ ran[1].err = "tool failed"
    /\ runPc = "request"
    /\ runErr = None
    /\ turns[Len(turns) - 1].Role = "assistant"

\* What the parser says about one block of a TurnResult: "pass" for a block
\* that is not text, "eof" for end of input, "syntax" for any other error,
\* "unknown" for a call of a tool that does not exist, "call" otherwise.
BlockOutcome(blk) ==
    LET Of(r) == IF r.err = "EOF" THEN "eof"
                 ELSE IF r.err # None THEN "syntax"
                 ELSE IF r.fc[1].Name \in KnownTools THEN "call"
                 ELSE "unknown"
    IN IF blk.Typ # "text" THEN "pass" ELSE Of(parseCommand(blk.Text))

\* Some block of the TurnResult has a syntax error or calls an unknown tool.
FatalResponse(blocks) ==
    \E i \in 1..Len(blocks) : BlockOutcome(blocks[i]) \in { "syntax", "unknown" }

\* The step on which the TurnResult is received and its blocks are parsed.
ReceiveStep == response = << >> /\ response' # << >>

\* A fatal TurnResult ends Run with an error and leaves the history alone;
\* any other TurnResult is appended and Run goes on without an error.
FatalEndsRun ==
    ReceiveStep =>
        IF FatalResponse(response')
          THEN runPc' = "done" /\ runErr' \notin { None, "EOF" } /\ turns' = turns
          ELSE runPc' \in { "top", "confirm" } /\ runErr' = None
               /\ Len(turns') = Len(turns) + 1

\* C21: a syntax error of the parser in any text block, and a call of a tool
\* that is not one of the six known tools, each make Run return an error; an
\* end-of-input result of the parser never does.
TheoremC21 == [][FatalEndsRun]_vars

\* Run has returned the syntax error of the second text block of a TurnResult
\* whose first block is a complete call.
WitnessC21 ==
    /\ runPc = "done"
    /\ Len(response) = 2
    /\ BlockOutcome(response[1]) = "call"
    /\ BlockOutcome(response[2]) = "syntax"
    /\ runErr \notin { None, "EOF", "unknown tool" }

\* Run has returned the error for a tool that does not exist.
WitnessC21Unknown ==
    /\ runPc = "done"
    /\ Len(response) = 1
    /\ BlockOutcome(response[1]) = "unknown"
    /\ runErr = "unknown tool"

\* Run goes on after a TurnResult for which the parser reported end of input.
WitnessC21Eof ==
    /\ runPc = "top"
    /\ Len(response) = 1
    /\ BlockOutcome(response[1]) = "eof"
    /\ response[1].Text = OpenText
    /\ runErr = None

\* A request has been issued with the messages of the history and Complete
\* has not returned yet.
RequestInFlight == reqMessages # << >> /\ runPc # "done"

\* cmd.Run() has been called and has not returned yet.
ToolExecuting == runPc = "exec"

\* While a request is in flight Run is inside Complete and nowhere else, and
\* no tool runs; while a tool runs no request is in flight.
OneAtATime ==
    /\ RequestInFlight <=> runPc = "request"
    /\ RequestInFlight => (reqMessages = MessagesOf(turns) /\ ~ToolExecuting)
    /\ ToolExecuting => (~RequestInFlight /\ ran = Nil /\ AnsweredY)

\* A request is issued only when none is in flight, a tool is started only
\* when none runs and no request is in flight, and input is read only when
\* neither is in progress.
OneAtATimeStep ==
    /\ reqCount' # reqCount => (reqCount' = reqCount + 1 /\ ~RequestInFlight)
    /\ ToolExecuting' => (ToolExecuting \/ (~RequestInFlight /\ runPc = "confirm"))
    /\ ran' \notin { ran, Nil } => (ToolExecuting /\ ~ToolExecuting')
    /\ inputsRead' # inputsRead => (~RequestInFlight /\ ~ToolExecuting)

WitnessC23Tool ==
    /\ ToolExecuting
    /\ reqCount = 1
    /\ Len(turns) = 2

\* The value of the last parameter of the call that has the given name, ""
\* when the call has none.
LastValueOf(params, key) ==
    LET at == { i \in 1..Len(params) : params[i].Name = << key >> }
    IN IF at = {} THEN << >>
       ELSE params[CHOOSE i \in at : \A j \in at : j <= i].Value

\* The parameters written in the text of the TurnResult with the repeated
\* parameter, in the order written.
DupWritten ==
    << [Name |-> <<"filename">>, Value |-> <<"f">>],
       [Name |-> <<"filename">>, Value |-> <<"g">>] >>

\* The Cmd shown for a TurnResult of one text block takes every field from
\* the last parameter of that name in the parsed call.
CmdFromLastValues ==
    (shown # Nil /\ Len(response) = 1) =>
        LET ps == parseCommand(response[1].Text).fc[1].Parameters
            c == shown[1]
        IN /\ c.tool \in { <<"cat">>, <<"write_file">>, <<"append_to_file">>,
                           <<"replace_string_in_file">> }
                => c.Filename = LastValueOf(ps, "filename")
           /\ c.tool \in { <<"list_files">>, <<"rg">> }
                => c.Pattern = LastValueOf(ps, "pattern")
           /\ c.tool = <<"rg">> => c.Directory = LastValueOf(ps, "directory")
           /\ c.tool = <<"replace_string_in_file">>
                => /\ c.OriginalString = LastValueOf(ps, "original_string")
                   /\ c.NewString = LastValueOf(ps, "new_string")

\* The parser keeps both occurrences of the repeated parameter, in order.
DupKept ==
    (response = << TextBlock(DupText) >> /\ shown # Nil) =>
        /\ parseCommand(DupText).fc[1].Parameters = DupWritten
        /\ shown[1].Filename = << "g" >>

\* C26: the parser keeps the parameters in the order parsed, duplicates
\* included, and a parameter name given more than once reaches the
\* ToolInvocation with the value of its last occurrence.
TheoremC26 == CmdFromLastValues /\ DupKept

\* The call with filename f and then filename g is shown for confirmation.
WitnessC26 ==
    /\ runPc = "confirm"
    /\ response = << TextBlock(DupText) >>
    /\ shown # Nil
    /\ shown[1].tool = << "cat" >>
    /\ shown[1].Filename = << "g" >>

\* The input read on this step is the /reset command.
ReadsReset ==
    /\ lastInput = Nil
    /\ lastInput' # Nil
    /\ IsSlashInput(lastInput'[1])
    /\ SplitN2(lastInput'[1])[1] = Command("reset")

\* The history holds the turns appended since the last /reset and no other,
\* and so do the messages of a request in flight.
OnlyTurnsSinceReset ==
    /\ turns = sinceReset
    /\ runPc = "request" => reqMessages = MessagesOf(sinceReset)

\* /reset empties the history and issues no request.
ResetStep == ReadsReset => (turns' = << >> /\ reqCount' = reqCount /\ runPc' = "top")

\* C27: after /reset the history is empty; turns appended before the reset
\* are in no later request, which holds only turns appended after it.
TheoremC27 == []OnlyTurnsSinceReset /\ [][ResetStep]_vars

\* A request after a reset that followed a completed round: it carries the
\* one user turn appended since.
WitnessC27 ==
    /\ runPc = "request"
    /\ inputsRead = 3
    /\ reqCount = 2
    /\ Len(reqMessages) = 1
    /\ reqMessages[1].Role = "user"

\* A step changes the history only by appending one turn at its end, unless
\* it is the /reset command.
AppendOnlyStep ==
    turns' # turns =>
        IF ReadsReset THEN turns' = << >>
        ELSE /\ Len(turns') = Len(turns) + 1
             /\ SubSeq(turns', 1, Len(turns)) = turns

\* C28: apart from /reset, every change Run makes to the history appends one
\* turn at its end; turns in the history are not modified, removed or moved.
TheoremC28 == [][AppendOnlyStep]_vars

\* A history grown by four appends within one round.
WitnessC28 ==
    /\ Len(turns) = 4
    /\ inputsRead = 1
    /\ turns[1].Role = "user"
    /\ turns[2].Role = "assistant"
    /\ turns[3].Role = "user"
    /\ turns[4].Role = "assistant"

\* ================================================================ the tools

\* The strings over the characters a and b of length n at most.
StringsUpTo(n) == UNION { [ 1..k -> { "a", "b" } ] : k \in 0..n }

\* strings.Index(s[start:], sub)
IndexFrom(s, sub, start) ==
    LET hits == { j \in 0..(Len(s) - start) :
                    /\ start + j + Len(sub) <= Len(s)
                    /\ SubSeq(s, start + j + 1, start + j + Len(sub)) = sub }
    IN IF hits = {} THEN -1 ELSE First(hits)

RECURSIVE CountFrom(_, _, _)
\* strings.Count(s[start:], sub) for a non-empty sub: non-overlapping instances
CountFrom(s, sub, start) ==
    LET After(j) == IF j = -1 THEN 0 ELSE 1 + CountFrom(s, sub, start + j + Len(sub))
    IN After(IndexFrom(s, sub, start))

\* strings.Count(s, sub): for the empty sub, the number of runes plus one
CountOf(s, sub) == IF sub = << >> THEN Len(s) + 1 ELSE CountFrom(s, sub, 0)

RECURSIVE ReplaceLoop(_, _, _, _, _, _, _)
\* for i := 0; i < n; i++ { ... }; b.WriteString(s[start:]) of
\* replaceStringCount, from iteration i on with the builder b
ReplaceLoop(s, old, new, n, i, start, b) ==
    LET Step(j) ==
            ReplaceLoop(s, old, new, n, i + 1, j + Len(old),
                        (b \o SubSeq(s, start + 1, j)) \o new)
    IN IF i >= n THEN [count |-> i, text |-> b \o SubSeq(s, start + 1, Len(s))]
       ELSE IF old = << >>
         THEN Step(IF i > 0 /\ start < Len(s) THEN start + 1 ELSE start)
       ELSE Step(start + IndexFrom(s, old, start))

replaceStringCountIgnoresLimit(s, old, new, n) ==
    LET Apply(m) ==
            IF m = 0 THEN [count |-> 0, text |-> s]
            ELSE ReplaceLoop(s, old, new, m, 0, 0, << >>)
    IN IF old = new \/ n = 0 THEN [count |-> 0, text |-> s]
       ELSE Apply(CountOf(s, old))

\* replaceStringCount(s, old, new, n): (replacementCount, b.String())
replaceStringCount(s, old, new, n) ==
    LET Apply(m) ==
            IF m = 0 THEN [count |-> 0, text |-> s]
            ELSE ReplaceLoop(s, old, new, IF n < 0 \/ m < n THEN m ELSE n, 0, 0, << >>)
    IN IF old = new \/ n = 0 THEN [count |-> 0, text |-> s]
       ELSE Apply(CountOf(s, old))

\* %d of a small number
DecimalOf(k) == << "0", "1", "2", "3", "4", "5", "6", "7", "8", "9" >>[k + 1]

\* fmt.Sprintf("Replaced string in file %s %d times.", a.Filename, actualCount)
ReplacedMessage(filename, count) ==
    (<< "Replaced string in file " >> \o filename) \o << " ", DecimalOf(count), " times." >>

\* One token of a regular expression matches one character: a literal, the
\* dot (any character but newline) and the negated class [^b], which matches
\* a newline as well.
TokenMatches(tok, ch) ==
    IF tok = "." THEN ch # NL
    ELSE IF tok = "[^b]" THEN ch # "b"
    ELSE tok = ch

RECURSIVE MatchFrom(_, _, _, _)
\* The tokens of pat from the k-th on match text from its i-th character on;
\* with the flag m, ^ and $ match at the ends of the text and next to a newline.
MatchFrom(pat, k, text, i) ==
    IF k > Len(pat) THEN TRUE
    ELSE IF pat[k] = "^"
      THEN (i = 1 \/ text[i - 1] = NL) /\ MatchFrom(pat, k + 1, text, i)
    ELSE IF pat[k] = "$"
      THEN (i = Len(text) + 1 \/ text[i] = NL) /\ MatchFrom(pat, k + 1, text, i)
    ELSE i <= Len(text) /\ TokenMatches(pat[k], text[i])
           /\ MatchFrom(pat, k + 1, text, i + 1)

\* regx.Match(text) for regx compiled from "(?m)" + pattern
RegexMatch(pat, text) == \E i \in 1..(Len(text) + 1) : MatchFrom(pat, 1, text, i)

\* regexp.Compile("(?m)" + a.Pattern) returns an error: a group is not closed.
CompileFails(pat) == \E k \in 1..Len(pat) : pat[k] = "("

RECURSIVE ReadLines(_)
\* The lines r.ReadBytes('\n') returns, delimiter included, until it returns
\* io.EOF: what it has read by then is not looked at.
ReadLines(text) ==
    LET Cut(j) == IF j = -1 THEN << >>
                  ELSE << SubSeq(text, 1, j + 1) >>
                         \o ReadLines(SubSeq(text, j + 2, Len(text)))
    IN Cut(IndexFrom(text, << NL >>, 0))

RECURSIVE WriteMatching(_, _)
\* if regx.Match(line) { outBuf.Write(line) }, line by line
WriteMatching(lines, pat) ==
    IF lines = << >> THEN << >>
    ELSE (IF RegexMatch(pat, lines[1]) THEN lines[1] ELSE << >>)
           \o WriteMatching(Tail(lines), pat)

\* ------------------------------------------------------- tools: the inputs
NoToolInput ==
    [tool |-> << >>, Filename |-> << >>, OriginalString |-> << >>, NewString |-> << >>,
     Count |-> 0, readable |-> TRUE, writable |-> TRUE, content |-> << >>,
     Pattern |-> << >>, rgOut |-> << >>, rgFails |-> FALSE]

\* ReplaceStringInFileArgs and the file it is run on.
ReplaceInputs ==
    { [NoToolInput EXCEPT !.tool = <<"replace_string_in_file">>, !.Filename = <<"f">>,
                          !.OriginalString = old, !.NewString = new, !.Count = n,
                          !.readable = env[1], !.writable = env[2], !.content = s] :
        s \in StringsUpTo(MaxContent),
        old \in { << >>, <<"a">>, <<"b">>, <<"a", "a">>, <<"a", "b">> },
        new \in { << >>, <<"a">>, <<"b">>, <<"b", "b">> },
        n \in { -1, 0, 1, 2, 4 },
        env \in { << TRUE, TRUE >>, << FALSE, TRUE >>, << TRUE, FALSE >> } }

\* The output of 'rg --files': names, each followed by a newline.
Listings ==
    { Flatten([ i \in 1..Len(names) |-> Append(names[i], NL) ]) :
        names \in UNION { [ 1..k -> { <<"a">>, <<"b">>, <<"a", "b">>, <<"b", "a">> } ] :
                            k \in 0..MaxLines } }

\* The patterns a call of list_files can come with.
Patterns ==
    { << >>, <<"a">>, <<"^", "b">>, <<"a", "$">>, <<".", "b">>, <<"[^b]", "$">>,
      <<"(", "a">> }

\* ListFilesArgs and what 'rg --files' does.
ListInputs ==
    { [NoToolInput EXCEPT !.tool = <<"list_files">>, !.Pattern = pat, !.rgOut = out,
                          !.rgFails = fails] :
        pat \in Patterns, out \in Listings, fails \in BOOLEAN }

\* ------------------------------------------------------ tools: the actions
InitTool ==
    /\ toolPc = "call"
    /\ toolIn \in ReplaceInputs \cup ListInputs
    /\ fileNow = toolIn.content
    /\ toolOut = << >>
    /\ toolErr = None
    /\ AccIdle
    /\ ParseIdle
    /\ RunIdle

\* (a *ReplaceStringInFileArgs) Run()
RunReplaceString ==
    LET Write(r) ==
            IF ~toolIn.writable
              THEN toolOut' = << >> /\ toolErr' = "write error" /\ fileNow' = fileNow
              ELSE /\ fileNow' = r.text
                   /\ toolOut' = ReplacedMessage(toolIn.Filename, r.count)
                   /\ toolErr' = None
    IN /\ toolPc = "call"
       /\ toolIn.tool = <<"replace_string_in_file">>
       /\ toolPc' = "returned"
       /\ IF ~toolIn.readable
            THEN toolOut' = << >> /\ toolErr' = "read error" /\ fileNow' = fileNow
            ELSE Write(replaceStringCount(fileNow, toolIn.OriginalString,
                                          toolIn.NewString, toolIn.Count))
       /\ UNCHANGED toolIn
       /\ UNCHANGED nonToolVars

\* (a *ListFilesArgs) Run()
RunListFiles ==
    /\ toolPc = "call"
    /\ toolIn.tool = <<"list_files">>
    /\ toolPc' = "returned"
    /\ IF CompileFails(toolIn.Pattern)
         THEN toolOut' = << >> /\ toolErr' = "regexp error"
       ELSE IF toolIn.rgFails
         THEN toolOut' = << >> /\ toolErr' = "rg failed"
       ELSE /\ toolOut' = WriteMatching(ReadLines(toolIn.rgOut), toolIn.Pattern)
            /\ toolErr' = None
    /\ UNCHANGED << toolIn, fileNow >>
    /\ UNCHANGED nonToolVars

NextTool == RunReplaceString \/ RunListFiles

SpecTool == InitTool /\ [][NextTool]_vars

\* ------------------------------------------------- tools: the properties

RECURSIVE ReplacedEmpty(_, _, _)
\* strings.Replace(s, "", new, n): new is put in front of each of the first
\* n characters, and at the end of s when n allows one more.
ReplacedEmpty(s, new, n) ==
    IF n = 0 THEN s
    ELSE IF s = << >> THEN new
    ELSE (new \o << s[1] >>) \o ReplacedEmpty(Tail(s), new, n - 1)

RECURSIVE Replaced(_, _, _, _)
\* strings.Replace(s, old, new, n) for a non-empty old: the leftmost
\* occurrence is replaced and the rest of s after it is treated the same way,
\* n - 1 times more (without limit when n is negative).
Replaced(s, old, new, n) ==
    LET at == { i \in 1..Len(s) : i + Len(old) - 1 <= Len(s)
                                   /\ SubSeq(s, i, i + Len(old) - 1) = old }
    IN IF n = 0 \/ at = {} THEN s
       ELSE LET i == CHOOSE x \in at : \A y \in at : x <= y
            IN (SubSeq(s, 1, i - 1) \o new)
                 \o Replaced(SubSeq(s, i + Len(old), Len(s)), old, new, n - 1)

RECURSIVE OccurrencesEmpty(_, _)
\* How many times ReplacedEmpty puts new into s.
OccurrencesEmpty(s, n) ==
    IF n = 0 THEN 0
    ELSE IF s = << >> THEN 1
    ELSE 1 + OccurrencesEmpty(Tail(s), n - 1)

RECURSIVE Occurrences(_, _, _)
\* How many occurrences Replaced replaces.
Occurrences(s, old, n) ==
    LET at == { i \in 1..Len(s) : i + Len(old) - 1 <= Len(s)
                                   /\ SubSeq(s, i, i + Len(old) - 1) = old }
    IN IF n = 0 \/ at = {} THEN 0
       ELSE LET i == CHOOSE x \in at : \A y \in at : x <= y
            IN 1 + Occurrences(SubSeq(s, i + Len(old), Len(s)), old, n - 1)

\* What strings.Replace makes of the file of the call.
ExpectedContent ==
    IF toolIn.OriginalString = << >>
      THEN ReplacedEmpty(toolIn.content, toolIn.NewString, toolIn.Count)
      ELSE Replaced(toolIn.content, toolIn.OriginalString, toolIn.NewString, toolIn.Count)

\* The number of replacements that rewrite: none when the replacement is the
\* original string itself.
ExpectedCount ==
    IF toolIn.OriginalString = toolIn.NewString THEN 0
    ELSE IF toolIn.OriginalString = << >>
      THEN OccurrencesEmpty(toolIn.content, toolIn.Count)
    ELSE Occurrences(toolIn.content, toolIn.OriginalString, toolIn.Count)

\* The replace tool has returned.
ReplaceReturned == toolPc = "returned" /\ toolIn.tool = <<"replace_string_in_file">>

\* C24: the replace tool rewrites the file to what strings.Replace gives for
\* its content, original, replacement and count (every occurrence from left
\* to right for a negative count, the first n for a count n), and reports the
\* number of replacements made; when it returns an error the file is as it was.
TheoremC24 ==
    ReplaceReturned =>
        IF toolErr = None
          THEN /\ fileNow = ExpectedContent
               /\ toolOut = << "Replaced string in file ", "f", " ",
                               DecimalOf(ExpectedCount), " times." >>
          ELSE fileNow = toolIn.content /\ toolOut = << >>

\* "aaa" with a replaced by b once is "baa", and one replacement is reported.
WitnessC24 ==
    /\ ReplaceReturned
    /\ toolErr = None
    /\ toolIn.content = << "a", "a", "a" >>
    /\ toolIn.OriginalString = << "a" >>
    /\ toolIn.NewString = << "b" >>
    /\ toolIn.Count = 1
    /\ fileNow = << "b", "a", "a" >>
    /\ toolOut[4] = "1"

\* "aaa" with a replaced by b without limit is "bbb".
WitnessC24All ==
    /\ ReplaceReturned
    /\ toolIn.content = << "a", "a", "a" >>
    /\ toolIn.OriginalString = << "a" >>
    /\ toolIn.NewString = << "b" >>
    /\ toolIn.Count = -1
    /\ fileNow = << "b", "b", "b" >>
    /\ toolOut[4] = "3"

\* The list tool has returned its output.
ListReturned == toolPc = "returned" /\ toolIn.tool = <<"list_files">> /\ toolErr = None

RECURSIVE MatchingLines(_, _)
\* The lines of a listing that match a pattern, in the order of the listing
\* and each followed by its newline; a line is matched without its newline.
MatchingLines(listing, pat) ==
    LET ends == { i \in 1..Len(listing) : listing[i] = NL }
    IN IF ends = {} THEN << >>
       ELSE LET e == CHOOSE x \in ends : \A y \in ends : x <= y
            IN (IF RegexMatch(pat, SubSeq(listing, 1, e - 1))
                  THEN SubSeq(listing, 1, e) ELSE << >>)
                 \o MatchingLines(SubSeq(listing, e + 1, Len(listing)), pat)

\* C25 (as claimed): the list tool returns exactly the lines of the listing
\* that match the pattern, in the order of the listing, for every listing and
\* pattern; a line that does not match is absent.
ClaimC25 == ListReturned => toolOut = MatchingLines(toolIn.rgOut, toolIn.Pattern)

\* The roles of the history alternate, starting with user.
RolesAlternate ==
    \A i \in 1..Len(turns) : turns[i].Role = IF i % 2 = 1 THEN "user" ELSE "assistant"

\* Run is about to read, or is reading, the next user input.
WaitsForInput == runPc \in { "top", "prompt" }

\* C35: whenever Run waits for user input the history is empty or ends with
\* an assistant turn; the roles in the history alternate, starting with
\* user; a request is issued on a history whose last turn is a user turn.
TheoremC35 ==
    /\ RolesAlternate
    /\ WaitsForInput => (turns = << >> \/ turns[Len(turns)].Role = "assistant")
    /\ runPc = "request" =>
          /\ turns # << >>
          /\ turns[Len(turns)].Role = "user"
          /\ reqMessages[Len(reqMessages)].Role = "user"

\* Run waits for input after a round of two requests.
WitnessC35 ==
    /\ runPc = "prompt"
    /\ Len(turns) = 4
    /\ reqCount = 2
    /\ answer = Nil

\* Run waits for input after a declined confirmation.
WitnessC35Declined ==
    /\ runPc = "top"
    /\ answer # Nil
    /\ Len(turns) = 2

\* Run has returned because of a fatal TurnResult: the assistant turn was not
\* appended (the history still ends with the user turn of the request), no
\* command was shown for confirmation, no answer was read and no tool ran.
ReturnedBeforeAppend ==
    (runPc = "done" /\ response # << >> /\ FatalResponse(response)) =>
        /\ runErr # None
        /\ turns # << >>
        /\ turns[Len(turns)].Role = "user"
        /\ reqMessages = MessagesOf(turns)
        /\ shown = Nil
        /\ answer = Nil
        /\ ran = Nil

\* A fatal TurnResult is never followed by a confirmation or an execution.
FatalStep ==
    (ReceiveStep /\ FatalResponse(response')) =>
        (runPc' = "done" /\ turns' = turns /\ reqCount' = reqCount)

\* C37: a syntax error or an unknown tool in some text block makes Run return
\* before the assistant turn is appended and before any confirmation or
\* execution, even when an earlier block of the turn gave a valid call.
TheoremC37 == []ReturnedBeforeAppend /\ [][FatalStep]_vars

\* Run has returned on an unknown tool in the second block, after a first
\* block with a valid call.
WitnessC37 ==
    /\ runPc = "done"
    /\ Len(response) = 2
    /\ BlockOutcome(response[1]) = "call"
    /\ BlockOutcome(response[2]) = "unknown"
    /\ runErr = "unknown tool"
    /\ Len(turns) = 1
    /\ shown = Nil

\* The Cmd that was run is the search tool.
RanSearch == ran # Nil /\ cmd # Nil /\ cmd[1].tool = <<"rg">>

\* After a search the tool reported no error, and the last turn is a user
\* turn whose envelope has exit_code 0, an empty stderr and the output of the
\* tool, the failure text included, as its stdout.
SearchEnvelopeClean ==
    RanSearch =>
        /\ ran[1].err = None
        /\ turns[Len(turns)].Role = "user"
        /\ \A p \in EnvelopeParts(turns[Len(turns)].Content[1].text) :
              /\ p.code = "0"
              /\ p.err = << >>
              /\ p.out = ran[1].out
        /\ EnvelopeParts(turns[Len(turns)].Content[1].text) # {}

\* The step on which the search tool returns gives no error to Run.
SearchStep ==
    (runPc = "exec" /\ cmd[1].tool = <<"rg">> /\ runPc' # "exec") =>
        (ran' # Nil /\ ran'[1].err = None /\ runErr' = None /\ runPc' = "request")

\* C39: RGArgs.Run never returns an error; when its command fails the failure
\* text is ordinary output, so the envelope appended for a search always has
\* exit_code 0 and an empty stderr.
TheoremC39 == []SearchEnvelopeClean /\ [][SearchStep]_vars

\* A search whose command failed: the failure text is the stdout of the
\* envelope that was appended.
WitnessC39 ==
    /\ RanSearch
    /\ ran[1].out = << "cmd err:", "output:" >>
    /\ runPc = "request"
    /\ turns[Len(turns)].Role = "user"

\* The text starts with '/'.
StartsWithSlash(text) == text # << >> /\ text[1] = Slash

\* No user turn of the history, and no user message of a request, holds text
\* that starts with '/'.
NoSlashInHistory ==
    /\ \A i \in 1..Len(turns) :
          turns[i].Role = "user" => ~StartsWithSlash(turns[i].Content[1].text)
    /\ \A i \in 1..Len(reqMessages) :
          reqMessages[i].Role = "user" => ~StartsWithSlash(reqMessages[i].Content[1].text)

\* A step that reads user input whose trimmed text starts with '/' appends
\* nothing, issues no request and goes back to the prompt, or ends Run.
SlashInputStep ==
    (inputsRead' = inputsRead + 1 /\ lastInput' # Nil /\ StartsWithSlash(lastInput'[1])) =>
        /\ turns' \in { turns, << >> }
        /\ reqCount' = reqCount
        /\ reqMessages' = reqMessages
        /\ runPc' \in { "top", "done" }

\* C40: input whose trimmed text starts with '/', a command that is not
\* recognized included, is never appended to the history and never causes a
\* request to the model.
TheoremC40 == []NoSlashInHistory /\ [][SlashInputStep]_vars

\* An unrecognized command has been read after a round with the model: the
\* history and the number of requests are those of that round.
WitnessC40 ==
    /\ lastInput = Ptr(Command("bogus"))
    /\ runPc = "top"
    /\ reqCount = 1
    /\ Len(turns) = 2
    /\ inputsRead = 2

====
